---- MODULE Spec2Model ----
(***************************************************************************)
(* Voice-message transcription bot: the retry wrapper, the typing session, *)
(* the transcription client and the Telegram event handlers of             *)
(* src/src/modules (utils.ts, aiService.ts, telegramHandlers.ts).          *)
(*                                                                         *)
(* Time is counted in seconds.  Every timer is a countdown; Tick lets one  *)
(* second pass and is blocked while a timer is due, so a timer callback    *)
(* runs at its due time.  One action is one run-to-completion turn of the  *)
(* JavaScript event loop: a promise settlement together with the           *)
(* continuations (microtasks) it wakes.                                    *)
(***************************************************************************)
EXTENDS Integers, Sequences, FiniteSets, TLC

VARIABLES ev, h, ty, calls, sent, localBotId, ops, proc

vars == <<ev, h, ty, calls, sent, localBotId, ops, proc>>

-----------------------------------------------------------------------------
(* Bounds of the model *)

\* largest retry count and delay the stand-alone retry call is given
MaxRetries == 4
MaxDelay == 2
\* number of start() and stop() calls made on the stand-alone typing session
MaxTypingCalls == 3
\* number of tool executions recorded for the stand-alone transcribeAudio call
MaxToolRuns == 2
\* number of chunks of audio the stand-alone extraction call captures
MaxChunks == 3

(* Program constants, in seconds *)
DefaultRetries == 3
RetryDelay == 1
TypingInterval == 6
TranscriptionTimeout == 60
\* in bytes
MinAudioBytes == 1000

-----------------------------------------------------------------------------
(* Values *)

Undefined == "undefined"
TimeoutError == "Transcription timed out after 60 seconds"
BackendErrors == {"backend error"}
DownloadErrors == {"stream error A", "stream error B"}
OpErrors == {"op error A", "op error B"}
OpValues == {"value A", "value B"}
SendError == "ETELEGRAM"
AudioBuffer == "audio bytes"

\* a string is a sequence of tokens; " " is the only whitespace token
Null == [null |-> TRUE]
Str(s) == [null |-> FALSE, s |-> s]
TextInputs == {<<"t">>, <<"s", "t">>}
TldrInputs == {Null, Str(<<>>), Str(<<" ">>), Str(<<"s">>), Str(<<" ", "s">>)}
Results == [transcribedText : TextInputs, tldr : TldrInputs]

supportedAudioMimeTypes ==
  {"audio/mpeg", "audio/mp4", "audio/ogg", "audio/wav", "audio/x-m4a", "audio/aac"}
NoMime == "(no mime_type)"
AudioPrefixed == supportedAudioMimeTypes \cup {"audio/flac"}
MimeInputs == {"audio/mpeg", "audio/ogg", "audio/flac", "image/png", NoMime}

UserIds == {100, 200}
\* the bot's own account, as getMe() reports it
Me == [id |-> 100, username |-> "voiceoverbot"]
\* the chat and the message an inbound event comes from
Origins == {[chat |-> -7, message_id |-> 41], [chat |-> 9, message_id |-> 42]}
FileNames == {"", "memo.mp3"}

-----------------------------------------------------------------------------
(* retry (utils.ts) as a state machine over the frame of one call:         *)
(*   st = "calling"  fn() is in flight (the await of line 18)              *)
(*   st = "sleeping" the delay of line 22 is running, rem seconds are left *)
(*   st = "returned" retry returned out                                    *)
(*   st = "thrown"   retry threw out                                       *)
(* nCalls calls of fn() were made, nDelays delays ran to their end and      *)
(* waited seconds were spent in delays.                                    *)

NoFrame ==
  [retries |-> 0, delay |-> 0, i |-> 0, lastError |-> Undefined, st |-> "none",
   rem |-> 0, out |-> Undefined, nCalls |-> 0, nDelays |-> 0, waited |-> 0]

\* a retry whose loop body runs before the count is tested
RetryEnterAtLeastOnce(retries, delay) ==
  [NoFrame EXCEPT !.retries = retries, !.delay = delay,
                  !.st = "calling", !.nCalls = 1]

RetryEnter(retries, delay) ==
  IF 0 < retries
    THEN [NoFrame EXCEPT !.retries = retries, !.delay = delay,
                         !.st = "calling", !.nCalls = 1]
    ELSE [NoFrame EXCEPT !.retries = retries, !.delay = delay,
                         !.st = "thrown", !.out = Undefined]

RetryOnResolve(r, v) == [r EXCEPT !.st = "returned", !.out = v]

\* a retry that keeps the first error it saw
RetryOnRejectKeepFirst(r, err) ==
  [r EXCEPT !.lastError = IF @ = Undefined THEN err ELSE @,
            !.st = "sleeping", !.rem = r.delay]

\* a retry that throws the error of the last attempt at once
RetryOnRejectLastAtOnce(r, err) ==
  IF r.i + 1 < r.retries
    THEN [r EXCEPT !.lastError = err, !.st = "sleeping", !.rem = r.delay]
    ELSE [r EXCEPT !.lastError = err, !.st = "thrown", !.out = err]

RetryOnReject(r, err) ==
  [r EXCEPT !.lastError = err, !.st = "sleeping", !.rem = r.delay]

RetryOnDelay(r) ==
  IF r.i + 1 < r.retries
    THEN [r EXCEPT !.i = @ + 1, !.st = "calling", !.nCalls = @ + 1,
                   !.nDelays = @ + 1]
    ELSE [r EXCEPT !.i = @ + 1, !.st = "thrown", !.out = r.lastError,
                   !.nDelays = @ + 1]

-----------------------------------------------------------------------------
(* The typing session of sendContinuousTypingAction (utils.ts).            *)
(* rems[k] is the countdown of the k-th interval timer created by start(), *)
(* or -1 once it was cleared; intervalId is the timer the closure variable *)
(* holds (0: undefined).  since[k] is the time that has passed since the   *)
(* latest sendChatAction call made by the k-th start() or by its timer, or *)
(* -1 once that timer was cleared.                                         *)

TypingNew == [intervalId |-> 0, rems |-> <<>>, since |-> <<>>, stops |-> 0]

\* bot.sendChatAction(chatId, 'typing'), then setInterval(..., 6000)
TypingStart(t) ==
  [t EXCEPT !.since = Append(@, 0),
            !.rems = Append(@, TypingInterval), !.intervalId = Len(t.rems) + 1]

\* a stop() that clears nothing
TypingStopNoClear(t) == [t EXCEPT !.stops = @ + 1]

TypingStop(t) ==
  [t EXCEPT !.stops = @ + 1,
            !.rems = IF t.intervalId # 0
                       THEN [@ EXCEPT ![t.intervalId] = -1]
                       ELSE @,
            !.since = IF t.intervalId # 0
                        THEN [@ EXCEPT ![t.intervalId] = -1]
                        ELSE @]

\* a timer set with setTimeout: it fires once
TypingOnIntervalOnce(t, k) ==
  [t EXCEPT !.since[k] = 0, !.rems[k] = -1]

\* the interval callback: bot.sendChatAction(chatId, 'typing'); the timer repeats
TypingOnInterval(t, k) ==
  [t EXCEPT !.since[k] = 0, !.rems[k] = TypingInterval]

Starts(t) == Len(t.rems)
LiveTimers(t) == {k \in 1..Len(t.rems) : t.rems[k] >= 0}

-----------------------------------------------------------------------------
(* One transcribeAudio invocation (aiService.ts): the promise it returns,  *)
(* its 60 s timer (rem seconds left while armed) and the generateText call *)
(* it started (backend: "running" until it returns or throws; toolRan: the *)
(* output tool was executed at least once).                                *)

NoResult == [transcribedText |-> <<>>, tldr |-> Null]

\* a promise whose value a later resolve replaces
ResolveAgain(c, res) ==
  IF c.promise \in {"pending", "resolved"}
    THEN [c EXCEPT !.promise = "resolved", !.result = res]
    ELSE c

Resolve(c, res) ==
  IF c.promise = "pending"
    THEN [c EXCEPT !.promise = "resolved", !.result = res]
    ELSE c

Reject(c, err) ==
  IF c.promise = "pending"
    THEN [c EXCEPT !.promise = "rejected", !.error = err]
    ELSE c

ClearTimeout(timer) == IF timer = "armed" THEN "cleared" ELSE timer

NewCall(mimeType) ==
  [mimeType |-> mimeType, promise |-> "pending", result |-> NoResult,
   error |-> Undefined, timer |-> "armed", rem |-> TranscriptionTimeout,
   backend |-> "running", toolRan |-> FALSE]

\* an execute() that stores its arguments whatever the promise's state
CallOnToolOverwrite(c, res) ==
  [c EXCEPT !.timer = ClearTimeout(@), !.rem = 0, !.toolRan = TRUE,
            !.promise = "resolved", !.result = res]

\* execute() of the outputTranscription tool
CallOnTool(c, res) ==
  Resolve([c EXCEPT !.timer = ClearTimeout(@), !.rem = 0, !.toolRan = TRUE],
          res)

\* a client that resolves with an empty transcription when generateText returns
CallOnReturnResolves(c) ==
  Resolve([c EXCEPT !.timer = ClearTimeout(@), !.rem = 0, !.backend = "ended"],
          NoResult)

\* generateText returned without throwing
CallOnReturn(c) == [c EXCEPT !.backend = "ended"]

\* the catch block around generateText
CallOnThrow(c, err) ==
  Reject([c EXCEPT !.timer = ClearTimeout(@), !.rem = 0, !.backend = "ended"],
         err)

\* a timer callback that only logs
CallOnTimeoutSilent(c) == [c EXCEPT !.timer = "fired"]

\* the setTimeout callback
CallOnTimeout(c) == Reject([c EXCEPT !.timer = "fired"], TimeoutError)

-----------------------------------------------------------------------------
(* One extractAudioFromVideoNote call (utils.ts as of unnamed/part_001):   *)
(* the promise it returns (result: the size of the audio buffer in bytes), *)
(* the temporary video file, the unlinkSync calls made (TRUE: deleted the  *)
(* file, FALSE: threw), the ffmpeg command (cmd) and what its callbacks    *)
(* captured: bytes in chunks of audio, noStream when a line of stderr said *)
(* that the output holds no stream, message of the command's 'error'.      *)

NoExtract ==
  [st |-> "none", promise |-> "pending", result |-> 0, error |-> <<>>,
   file |-> "none", unlinks |-> <<>>, cmd |-> "none", bytes |-> 0,
   chunks |-> 0, noStream |-> FALSE, streamError |-> FALSE,
   message |-> "none", logs |-> {}]

NoAudioError == <<"Video note does not contain audio stream">>
ExtractError(message) == <<"Failed to extract audio from video note: ", message>>
TooSmallError ==
  <<"Extracted audio file is too small - video note may not contain audio or may be silent">>
TempFileError(message) ==
  <<"Failed to create temporary file for video processing: ", message>>

WriteErrors == {"ENOSPC"}
SetupErrors == {"spawn error"}
StreamErrors == {"write EPIPE"}
FfmpegErrors ==
  {"Output file #0 does not contain any stream", "No audio", "ffmpeg exited with code 1"}
StderrLines ==
  {"Output file #0 does not contain any stream", "Invalid data found", "frame= 1"}
\* text.includes('does not contain any stream')
IncludesNoStream(text) == text = "Output file #0 does not contain any stream"
\* text.includes('No audio')
IncludesNoAudio(text) == text = "No audio"
\* stderrLine.includes('Error') || .includes('failed') || .includes('Invalid')
IncludesAlarm(text) == text = "Invalid data found"

\* try { unlinkSync(tempVideoPath) } catch: ok is whether the file system lets
\* an existing file be deleted
Unlink(x, ok) ==
  IF x.file = "exists" /\ ok
    THEN [x EXCEPT !.file = "deleted", !.unlinks = Append(@, TRUE)]
    ELSE [x EXCEPT !.unlinks = Append(@, FALSE)]

UnlinkLogged(x, ok) ==
  LET x1 == Unlink(x, ok) IN
  IF x1.unlinks[Len(x1.unlinks)]
    THEN x1
    ELSE [x1 EXCEPT !.logs = @ \cup {"Failed to cleanup temp file"}]

\* lines 57-73: the download resolved; written is "all", "part" or "none" of the
\* file when writeFileSync returned or threw err
ExtractOnDownloaded(x, written, err, ok) ==
  IF written = "all"
    THEN [x EXCEPT !.st = "setup", !.file = "exists"]
    ELSE LET x1 == [x EXCEPT !.file = IF written = "part" THEN "exists" ELSE "none"]
             x2 == Unlink(x1, ok)
         IN  Reject([x2 EXCEPT !.st = "returned"],
                    TempFileError(err))

\* lines 73-187, the executor of the promise: the command is built and piped,
\* or building it throws err
ExtractOnSetup(x, threw, err) ==
  IF threw
    THEN Reject([x EXCEPT !.st = "returned"], <<err>>)
    ELSE [x EXCEPT !.st = "returned", !.cmd = "running"]

\* lines 98-108
ExtractOnStderr(x, stderrLine) ==
  [x EXCEPT !.noStream = @ \/ IncludesNoStream(stderrLine),
            !.logs = IF IncludesAlarm(stderrLine) THEN @ \cup {"FFmpeg stderr"}
                                                  ELSE @]

\* lines 171-173
ExtractOnData(x, n) == [x EXCEPT !.bytes = @ + n, !.chunks = @ + 1]

\* the 'error' handler without the test for a missing stream
ExtractOnErrorGeneric(x, message, ok) ==
  LET x1 == [x EXCEPT !.cmd = "failed", !.message = message,
                      !.logs = @ \cup {"FFmpeg error during audio extraction"}]
  IN  Reject(UnlinkLogged(x1, ok), ExtractError(message))

\* lines 109-135
ExtractOnError(x, message, ok) ==
  LET x1 == [x EXCEPT !.cmd = "failed", !.message = message,
                      !.logs = @ \cup {"FFmpeg error during audio extraction"}]
      x2 == UnlinkLogged(x1, ok)
  IN  IF IncludesNoStream(message) \/ IncludesNoAudio(message) \/ x.noStream
        THEN Reject(x2, NoAudioError)
        ELSE Reject(x2, ExtractError(message))

\* the 'end' handler without the test of the size
ExtractOnEndAnySize(x, ok) ==
  LET x1 == [x EXCEPT !.cmd = "ended",
                      !.logs = @ \cup {"Audio extraction completed"}]
  IN  Resolve(UnlinkLogged(x1, ok), x.bytes)

\* lines 136-166
ExtractOnEnd(x, ok) ==
  LET x1 == [x EXCEPT !.cmd = "ended",
                      !.logs = @ \cup {"Audio extraction completed"}]
      x2 == UnlinkLogged(x1, ok)
  IN  IF x.bytes < MinAudioBytes
        THEN Reject([x2 EXCEPT !.logs = @ \cup {"Warning: Extracted audio file is very small"}],
                    TooSmallError)
        ELSE Resolve(x2, x.bytes)

\* lines 175-186
ExtractOnStreamError(x, message, ok) ==
  LET x1 == [x EXCEPT !.streamError = TRUE,
                      !.logs = @ \cup {"FFmpeg stream error"}]
  IN  Reject(UnlinkLogged(x1, ok), <<message>>)

-----------------------------------------------------------------------------
(* Strings of the handlers (telegramHandlers.ts) *)

IsSpace(ch) == ch = " "

RECURSIVE TrimStart(_)
TrimStart(s) ==
  IF s # <<>> /\ IsSpace(Head(s)) THEN TrimStart(Tail(s)) ELSE s

RECURSIVE TrimEnd(_)
TrimEnd(s) ==
  IF s # <<>> /\ IsSpace(s[Len(s)]) THEN TrimEnd(SubSeq(s, 1, Len(s) - 1)) ELSE s

Trim(s) == TrimEnd(TrimStart(s))

\* tldr?.trim() && tldr.length > 0
VoiceHasTldr(tldr) == ~tldr.null /\ Trim(tldr.s) # <<>> /\ Len(tldr.s) > 0

\* a template that puts the transcript first, as the document reply does
VoiceTemplateTranscriptFirst(res) ==
  IF VoiceHasTldr(res.tldr)
    THEN <<"<b>Original text:</b>\n">> \o res.transcribedText
           \o <<"\n<b>TLDR:</b>\n">> \o res.tldr.s
    ELSE res.transcribedText

VoiceTemplate(res) ==
  IF VoiceHasTldr(res.tldr)
    THEN <<"<b>TLDR:</b>\n">> \o res.tldr.s \o <<"\n<b>Original text:</b>\n">>
           \o res.transcribedText
    ELSE res.transcribedText

\* if (tldr)
DocHasTldr(tldr) == ~tldr.null /\ tldr.s # <<>>

\* a document reply laid out like the voice reply: the TLDR section first
DocReplyTextTldrFirst(res, file_name) ==
  <<"<b>Transcription (Document: ",
    IF file_name # "" THEN file_name ELSE "audio file",
    "):</b>\n">>
    \o (IF DocHasTldr(res.tldr)
          THEN <<"<b>TLDR:</b>\n">> \o res.tldr.s \o <<"\n\n">>
          ELSE <<>>)
    \o res.transcribedText

DocReplyText(res, file_name) ==
  <<"<b>Transcription (Document: ",
    IF file_name # "" THEN file_name ELSE "audio file",
    "):</b>\n">>
    \o res.transcribedText
    \o (IF DocHasTldr(res.tldr)
          THEN <<"\n\n<b>TLDR:</b>\n">> \o res.tldr.s
          ELSE <<>>)

VoiceFailureText ==
  <<"Sorry, I couldn't process your voice message. Please try again.">>

DocFailureText ==
  <<"Sorry, I couldn't process this audio document. Please try another file or check if it's a valid audio format.">>

UnsupportedText(mime_type) ==
  <<"Sorry, the audio format ", mime_type,
    " is not supported. Please try one of: MP3, M4A, OGG, WAV, AAC.">>

GreetingText ==
  <<"Hello! I am a bot that transcribes voice messages. Please give me admin rights to track all voice messages in the chat.">>

-----------------------------------------------------------------------------
(* State.                                                                  *)
(*   ev[e]     the inbound event e (or the arguments of a stand-alone call)*)
(*   h[e]      the handler invocation of e: pc, the stage it awaits, the   *)
(*             frame r of the retry call it awaits, cur the transcribeAudio*)
(*             call it awaits, the log lines written, err the error the    *)
(*             invocation ended with, x the extractAudioFromVideoNote call *)
(*             of a stand-alone extraction                                 *)
(*   ty[e]     the typing session of e                                     *)
(*   calls[e]  the transcribeAudio invocations made for e, in order        *)
(*   sent      the sendMessage calls, in order, with their outcome         *)
(*   localBotId the bot id cached by initializeTelegramHandlers (0: unset) *)
(*   ops[e]    what was observed of a stand-alone call, in order: the      *)
(*             outcomes of the attempts of the operation retry was given;  *)
(*             the start() and stop() calls made on a typing session; the  *)
(*             arguments of the first tool executions of a transcribeAudio *)
(*             call                                                        *)
(*   proc      the process: pc, the statement of the top level it is at;   *)
(*             env, its environment; exit, <<>> while it runs and <<code>> *)
(*             once it exited; bot, the TelegramBot client was constructed;*)
(*             handlers, the event names a handler is registered for; net, *)
(*             the network activity started; getMe, the state of the       *)
(*             getMe() call; logs, the lines written                       *)

Events == DOMAIN ev

\* a variable of the environment is absent, empty or set
EnvValues == {Undefined, "", "set"}
Envs ==
  [BOT_TOKEN : EnvValues, GOOGLE_GENERATIVE_AI_API_KEY : EnvValues,
   GEMINI_MODEL_ID : EnvValues]
\* !value
Falsy(v) == v \in {Undefined, ""}

NoProcess(env) ==
  [pc |-> "start", env |-> env, geminiModelId |-> Undefined, exit |-> <<>>,
   bot |-> FALSE, handlers |-> {}, net |-> {}, getMe |-> "none", logs |-> {}]

\* process.exit(code)
Exit(p, code) == [p EXCEPT !.pc = "exited", !.exit = <<code>>]

HandlerNames ==
  {"chat_member", "voice", "message", "polling_error", "webhook_error"}

\* the process once initializeTelegramHandlers(bot) has returned
Listening ==
  [NoProcess([BOT_TOKEN |-> "set", GOOGLE_GENERATIVE_AI_API_KEY |-> "set",
              GEMINI_MODEL_ID |-> Undefined])
     EXCEPT !.pc = "running", !.bot = TRUE, !.net = {"polling", "getMe"},
            !.getMe = "pending", !.handlers = HandlerNames,
            !.logs = {"Telegram event handlers registered."}]

NoHandler ==
  [pc |-> "new", stage |-> "none", r |-> NoFrame, cur |-> 0, logs |-> {},
   err |-> Undefined, x |-> NoExtract]

Event(kind, o) ==
  [kind |-> kind, chat |-> o.chat, message_id |-> o.message_id,
   voice |-> FALSE, file_id |-> FALSE, mime_type |-> NoMime, file_name |-> "",
   new_chat_member |-> 0, retries |-> 0, delay |-> 0]

\* a voice event carries no voice object, a voice object without file_id, or both
VoiceEvents ==
  {[Event("voice", o) EXCEPT !.voice = v, !.file_id = f] :
     o \in Origins, v \in BOOLEAN, f \in BOOLEAN} \ 
  {[Event("voice", o) EXCEPT !.file_id = TRUE] : o \in Origins}

DocumentEvents ==
  {[Event("document", o) EXCEPT !.mime_type = m, !.file_name = n] :
     o \in Origins, m \in MimeInputs, n \in FileNames}

ChatMemberEvents ==
  {[Event("chat_member", o) EXCEPT !.new_chat_member = u] :
     o \in Origins, u \in UserIds}

\* the part of the state one turn of the handler of e reads and writes
World(e) == [h |-> h[e], ty |-> ty[e], calls |-> calls[e], sent |-> sent]

\* a process whose typing session is one variable of the module
CommitSharedTyping(e, w) ==
  /\ h' = [h EXCEPT ![e] = w.h]
  /\ ty' = [e2 \in DOMAIN ty |-> w.ty]
  /\ calls' = [calls EXCEPT ![e] = w.calls]
  /\ sent' = w.sent

Commit(e, w) ==
  /\ h' = [h EXCEPT ![e] = w.h]
  /\ ty' = [ty EXCEPT ![e] = w.ty]
  /\ calls' = [calls EXCEPT ![e] = w.calls]
  /\ sent' = w.sent

Log(w, line) == [w EXCEPT !.h.logs = @ \cup {line}]

\* a sendMessage that takes chat and message from the event dispatched last,
\* as if chatId and messageId were variables of the module
SendMessageLatest(e, w, text, reply, parse_mode) ==
  LET later == {e2 \in DOMAIN ev : e2 > e /\ h[e2].pc # "new"}
      t == IF later = {} THEN e ELSE CHOOSE e2 \in later : TRUE
  IN  [w EXCEPT !.sent = Append(@, [e |-> e, chat |-> ev[t].chat, text |-> text,
                                    reply_to_message_id |->
                                      IF reply = <<>> THEN reply
                                                      ELSE <<ev[t].message_id>>,
                                    parse_mode |-> parse_mode,
                                    status |-> "pending"])]

\* bot.sendMessage(chatId, text, options); reply is <<message_id>> or <<>>
SendMessage(e, w, text, reply, parse_mode) ==
  [w EXCEPT !.sent = Append(@, [e |-> e, chat |-> ev[e].chat, text |-> text,
                                 reply_to_message_id |-> reply,
                                 parse_mode |-> parse_mode,
                                 status |-> "pending"])]

\* a call of transcribeAudio(audioBuffer, mimeType)
TranscribeAudio(w, mimeType) ==
  [w EXCEPT !.calls = Append(@, NewCall(mimeType)), !.h.cur = Len(w.calls) + 1]

-----------------------------------------------------------------------------
(* bot.on('voice'), telegramHandlers.ts 77-142 *)

\* a catch block that forgets typingAction.stop()
VoiceCatchNoStop(e, w) ==
  LET w2 == Log(w, "Error processing voice message")
      w3 == SendMessage(e, w2, VoiceFailureText, <<ev[e].message_id>>, "")
  IN  [w3 EXCEPT !.h.pc = "sendFail"]

\* the catch block, lines 121-141
VoiceCatch(e, w) ==
  LET w1 == [w EXCEPT !.ty = TypingStop(@)]
      w2 == Log(w1, "Error processing voice message")
      w3 == SendMessage(e, w2, VoiceFailureText, <<ev[e].message_id>>, "")
  IN  [w3 EXCEPT !.h.pc = "sendFail"]

\* a handler that checks msg.voice only
VoiceEntryNoFileIdCheck(e, w) ==
  IF ~ev[e].voice
    THEN [Log(w, "without voice data or file_id") EXCEPT !.h.pc = "done"]
    ELSE LET w1 == Log(w, "Received voice message")
             w2 == [w1 EXCEPT !.ty = TypingStart(TypingNew)]
             w3 == Log(w2, "Downloading voice file")
         IN  [w3 EXCEPT !.h.pc = "await", !.h.stage = "download",
                        !.h.r = RetryEnter(DefaultRetries, RetryDelay)]

\* lines 78-100, up to the await of the download
VoiceEntry(e, w) ==
  IF ~ev[e].voice \/ ~ev[e].file_id
    THEN [Log(w, "without voice data or file_id") EXCEPT !.h.pc = "done"]
    ELSE LET w1 == Log(w, "Received voice message")
             w2 == [w1 EXCEPT !.ty = TypingStart(TypingNew)]
             w3 == Log(w2, "Downloading voice file")
         IN  [w3 EXCEPT !.h.pc = "await", !.h.stage = "download",
                        !.h.r = RetryEnter(DefaultRetries, RetryDelay)]

\* a handler that hands the buffer to two transcribeAudio calls at once
VoiceDownloadedTwice(e, w) ==
  LET w1 == Log(Log(w, "Voice file downloaded"), "Transcribing audio")
      w2 == [w1 EXCEPT !.h.stage = "transcribe",
                       !.h.r = RetryEnter(DefaultRetries, RetryDelay)]
  IN  TranscribeAudio(TranscribeAudio(w2, "audio/ogg"), "audio/ogg")

\* lines 101-108: the download returned, transcribeAudio(audioBuffer) is called
VoiceDownloaded(e, w) ==
  LET w1 == Log(Log(w, "Voice file downloaded"), "Transcribing audio")
      w2 == [w1 EXCEPT !.h.stage = "transcribe",
                       !.h.r = RetryEnter(DefaultRetries, RetryDelay)]
  IN  TranscribeAudio(w2, "audio/ogg")

\* lines 109-119: the transcription returned res
VoiceTranscribed(e, w, res) ==
  LET w1 == Log(w, "Transcription received")
      w2 == [w1 EXCEPT !.ty = TypingStop(@)]
      w3 == SendMessage(e, w2, VoiceTemplate(res), <<ev[e].message_id>>, "HTML")
  IN  [w3 EXCEPT !.h.pc = "sendOk"]

\* a handler that runs its catch block whatever became of the reply
VoiceReplySettledAlwaysCatch(e, w, ok) == VoiceCatch(e, w)

\* line 120, or the catch block when the send of the reply failed
VoiceReplySettled(e, w, ok) ==
  IF ok
    THEN [Log(w, "Replied") EXCEPT !.h.pc = "done"]
    ELSE VoiceCatch(e, w)

\* a handler that sends the failure reply again when its send failed
VoiceFailureReplySettledRetry(e, w, ok) ==
  IF ok
    THEN [w EXCEPT !.h.pc = "done"]
    ELSE VoiceCatch(e, Log(w, "Failed to send error reply"))

\* lines 128-140: the send of the failure reply settled
VoiceFailureReplySettled(e, w, ok) ==
  IF ok
    THEN [w EXCEPT !.h.pc = "done"]
    ELSE [Log(w, "Failed to send error reply") EXCEPT !.h.pc = "done"]

-----------------------------------------------------------------------------
(* bot.on('message'), telegramHandlers.ts 145-228 *)

\* the finally block, lines 199-201
DocFinally(w) == [w EXCEPT !.ty = TypingStop(@)]

\* a catch block whose reply names the stage that failed
DocCatchByStage(e, w) ==
  LET w1 == Log(w, "Error processing audio document")
      w2 == SendMessage(e, w1,
                        IF w.h.stage = "download"
                          THEN <<"Sorry, I couldn't download this audio document.">>
                          ELSE DocFailureText,
                        <<ev[e].message_id>>, "")
  IN  [w2 EXCEPT !.h.pc = "sendFail"]

\* the catch block, lines 190-198
DocCatch(e, w) ==
  LET w1 == Log(w, "Error processing audio document")
      w2 == SendMessage(e, w1, DocFailureText, <<ev[e].message_id>>, "")
  IN  [w2 EXCEPT !.h.pc = "sendFail"]

\* a handler that answers every unsupported document type, audio or not
DocEntryAnyType(e, w) ==
  LET mime_type == ev[e].mime_type IN
  IF mime_type # NoMime /\ mime_type \in supportedAudioMimeTypes
    THEN LET w1 == Log(w, "Received supported audio document")
             w2 == [w1 EXCEPT !.ty = TypingStart(TypingNew)]
         IN  [w2 EXCEPT !.h.pc = "await", !.h.stage = "download",
                        !.h.r = RetryEnter(DefaultRetries, RetryDelay)]
    ELSE IF mime_type # NoMime
      THEN LET w1 == Log(w, "Received unsupported document type") IN
           [SendMessage(e, w1, UnsupportedText(mime_type),
                        <<ev[e].message_id>>, "")
              EXCEPT !.h.pc = "sendUnsupported"]
      ELSE [w EXCEPT !.h.pc = "done"]

\* lines 146-164 and 202-221
DocEntry(e, w) ==
  LET mime_type == ev[e].mime_type IN
  IF mime_type # NoMime /\ mime_type \in supportedAudioMimeTypes
    THEN LET w1 == Log(w, "Received supported audio document")
             w2 == [w1 EXCEPT !.ty = TypingStart(TypingNew)]
         IN  [w2 EXCEPT !.h.pc = "await", !.h.stage = "download",
                        !.h.r = RetryEnter(DefaultRetries, RetryDelay)]
    ELSE IF mime_type # NoMime
      THEN LET w1 == Log(w, "Received unsupported document type") IN
           IF mime_type \in AudioPrefixed
             THEN [SendMessage(e, w1, UnsupportedText(mime_type),
                               <<ev[e].message_id>>, "")
                     EXCEPT !.h.pc = "sendUnsupported"]
             ELSE [w1 EXCEPT !.h.pc = "done"]
      ELSE [w EXCEPT !.h.pc = "done"]

\* a handler that leaves the MIME type of the document to the default
DocDownloadedDefaultType(e, w) ==
  LET w1 == Log(w, "Audio document downloaded")
      w2 == [w1 EXCEPT !.h.stage = "transcribe", !.h.r = NoFrame]
  IN  TranscribeAudio(w2, "audio/ogg")

\* lines 165-176: transcribeAudio(audioBuffer, document.mime_type), not retried
DocDownloaded(e, w) ==
  LET w1 == Log(w, "Audio document downloaded")
      w2 == [w1 EXCEPT !.h.stage = "transcribe", !.h.r = NoFrame]
  IN  TranscribeAudio(w2, ev[e].mime_type)

\* lines 178-186
DocTranscribed(e, w, res) ==
  LET w1 == SendMessage(e, w, DocReplyText(res, ev[e].file_name),
                        <<ev[e].message_id>>, "HTML")
  IN  [w1 EXCEPT !.h.pc = "sendOk"]

\* lines 187-189 and finally, or the catch block
DocReplySettled(e, w, ok) ==
  IF ok
    THEN [DocFinally(Log(w, "Transcription for document sent"))
            EXCEPT !.h.pc = "done"]
    ELSE DocCatch(e, w)

\* a handler that stops the typing session after the catch block, not in finally
DocFailureReplySettledNoFinally(e, w, ok) ==
  IF ok
    THEN [DocFinally(w) EXCEPT !.h.pc = "done"]
    ELSE [w EXCEPT !.h.pc = "threw", !.h.err = SendError]

\* the await of line 194 inside the catch block: a rejection leaves the handler
DocFailureReplySettled(e, w, ok) ==
  IF ok
    THEN [DocFinally(w) EXCEPT !.h.pc = "done"]
    ELSE [DocFinally(w) EXCEPT !.h.pc = "threw", !.h.err = SendError]

\* the await of line 212
DocUnsupportedReplySettled(e, w, ok) ==
  IF ok
    THEN [w EXCEPT !.h.pc = "done"]
    ELSE [w EXCEPT !.h.pc = "threw", !.h.err = SendError]

-----------------------------------------------------------------------------
(* bot.on('chat_member'), telegramHandlers.ts 50-75 *)

\* a handler that greets every new member once the bot id is known
ChatMemberEntryAnyMember(e, w) ==
  IF localBotId # 0
    THEN [SendMessage(e, Log(w, "Bot added to chat"), GreetingText, <<>>, "")
            EXCEPT !.h.pc = "sendGreeting"]
    ELSE [w EXCEPT !.h.pc = "done"]

\* a handler that takes an unresolved bot id for a match
ChatMemberEntryUnresolvedMatches(e, w) ==
  IF localBotId = 0 \/ ev[e].new_chat_member = localBotId
    THEN [SendMessage(e, Log(w, "Bot added to chat"), GreetingText, <<>>, "")
            EXCEPT !.h.pc = "sendGreeting"]
    ELSE [w EXCEPT !.h.pc = "done"]

ChatMemberEntry(e, w) ==
  IF localBotId # 0 /\ ev[e].new_chat_member = localBotId
    THEN [SendMessage(e, Log(w, "Bot added to chat"), GreetingText, <<>>, "")
            EXCEPT !.h.pc = "sendGreeting"]
    ELSE [w EXCEPT !.h.pc = "done"]

ChatMemberReplySettled(e, w, ok) ==
  IF ok
    THEN [w EXCEPT !.h.pc = "done"]
    ELSE [Log(w, "Failed to send welcome message") EXCEPT !.h.pc = "done"]

-----------------------------------------------------------------------------
(* What the awaiting code does when the awaited promise settles *)

\* a voice handler that goes on to the transcription when the download threw
RetryThrownGoesOn(e, w) ==
  CASE ev[e].kind = "voice" /\ w.h.stage = "download" -> VoiceDownloaded(e, w)
    [] ev[e].kind = "voice" -> VoiceCatch(e, w)
    [] ev[e].kind = "document" -> DocCatch(e, w)
    [] OTHER -> [w EXCEPT !.h.pc = "done"]

\* retry threw: the handler's catch block, or the end of a stand-alone call
RetryThrown(e, w) ==
  CASE ev[e].kind = "voice" -> VoiceCatch(e, w)
    [] ev[e].kind = "document" -> DocCatch(e, w)
    [] OTHER -> [w EXCEPT !.h.pc = "done"]

\* retry returned w.h.r.out
RetryReturned(e, w) ==
  CASE ev[e].kind = "voice" /\ w.h.stage = "download" -> VoiceDownloaded(e, w)
    [] ev[e].kind = "voice" /\ w.h.stage = "transcribe" ->
         VoiceTranscribed(e, w, w.h.r.out)
    [] ev[e].kind = "document" -> DocDownloaded(e, w)
    [] OTHER -> [w EXCEPT !.h.pc = "done"]

\* the awaited download, transcription or operation resolved with v
FnResolved(e, w, v) ==
  IF w.h.r.st = "calling"
    THEN RetryReturned(e, [w EXCEPT !.h.r = RetryOnResolve(@, v)])
    ELSE IF ev[e].kind = "document"
      THEN DocTranscribed(e, w, v)
      ELSE [w EXCEPT !.h.pc = "done"]

\* the awaited download, transcription or operation rejected with err
FnRejected(e, w, err) ==
  IF w.h.r.st = "calling"
    THEN [Log(w, "Retry failed") EXCEPT !.h.r = RetryOnReject(@, err)]
    ELSE IF ev[e].kind = "document"
      THEN DocCatch(e, w)
      ELSE [w EXCEPT !.h.pc = "done", !.h.err = err]

\* the delay of retry elapsed: the next attempt, or the throw of lastError
RetryResumed(e, w) ==
  LET w1 == [w EXCEPT !.h.r = RetryOnDelay(@)] IN
  IF w1.h.r.st = "thrown"
    THEN RetryThrown(e, w1)
    ELSE IF w1.h.stage = "transcribe"
      THEN TranscribeAudio(w1, "audio/ogg")
      ELSE w1

\* the settlement of call k of e reaches the code that awaits it
Awaited(e, w, k) ==
  w.h.pc = "await" /\ w.h.stage = "transcribe" /\ w.h.cur = k

Settled(e, w, before, k) ==
  LET c == w.calls[k] IN
  IF before # "pending" \/ c.promise = "pending" \/ ~Awaited(e, w, k)
    THEN w
    ELSE IF c.promise = "resolved"
      THEN FnResolved(e, w, c.result)
      ELSE FnRejected(e, w, c.error)

-----------------------------------------------------------------------------
(* Actions *)

\* a voice event is dispatched to bot.on('voice')
OnVoice(e) ==
  /\ ev[e].kind = "voice" /\ h[e].pc = "new"
  /\ Commit(e, VoiceEntry(e, World(e)))
  /\ UNCHANGED <<ev, localBotId, ops, proc>>

\* a document message is dispatched to bot.on('message')
OnMessage(e) ==
  /\ ev[e].kind = "document" /\ h[e].pc = "new"
  /\ Commit(e, DocEntry(e, World(e)))
  /\ UNCHANGED <<ev, localBotId, ops, proc>>

\* a membership change is dispatched to bot.on('chat_member')
OnChatMember(e) ==
  /\ ev[e].kind = "chat_member" /\ h[e].pc = "new"
  /\ Commit(e, ChatMemberEntry(e, World(e)))
  /\ UNCHANGED <<ev, localBotId, ops, proc>>

GetMePending ==
  /\ proc.pc = "running" /\ proc.getMe = "pending"
  /\ \E e \in Events : ev[e].kind = "chat_member"

\* getMe() resolved with an id: initializeTelegramHandlers caches it
GetMeThen(id) ==
  /\ localBotId = 0
  /\ GetMePending
  /\ localBotId' = id
  /\ proc' = [proc EXCEPT !.getMe = "resolved",
                          !.logs = @ \cup {"Telegram Handlers Initialized"}]
  /\ UNCHANGED <<ev, h, ty, calls, sent, ops>>

\* getMe() resolved without a user object or without an id: only logged
GetMeThenNoId ==
  /\ GetMePending
  /\ proc' = [proc EXCEPT !.getMe = "noId",
                          !.logs = @ \cup {"Failed to get bot info for handlers"}]
  /\ UNCHANGED <<ev, h, ty, calls, sent, localBotId, ops>>

\* getMe() rejected: only logged
GetMeCatch ==
  /\ GetMePending
  /\ proc' = [proc EXCEPT !.getMe = "rejected",
                          !.logs = @ \cup {"Failed to get bot info for handlers"}]
  /\ UNCHANGED <<ev, h, ty, calls, sent, localBotId, ops>>

Downloading(e) ==
  h[e].pc = "await" /\ h[e].stage = "download" /\ h[e].r.st = "calling"

\* the file stream ended: downloadVoiceToBuffer resolves
DownloadEnd(e) ==
  /\ Downloading(e)
  /\ Commit(e, FnResolved(e, World(e), AudioBuffer))
  /\ UNCHANGED <<ev, localBotId, ops, proc>>

\* the file stream failed: downloadVoiceToBuffer rejects
DownloadError(e, err) ==
  /\ Downloading(e)
  /\ Commit(e, FnRejected(e, World(e), err))
  /\ UNCHANGED <<ev, localBotId, ops, proc>>

\* downloadVoiceToBuffer settles
DownloadSettles(e) ==
  \/ DownloadEnd(e)
  \/ \E err \in DownloadErrors : DownloadError(e, err)

\* the setTimeout of retry fired
RetryDelayElapsed(e) ==
  /\ h[e].pc = "await" /\ h[e].r.st = "sleeping" /\ h[e].r.rem = 0
  /\ Commit(e, RetryResumed(e, World(e)))
  /\ UNCHANGED <<ev, localBotId, ops, proc>>

\* a client whose tool resolves the promise of the latest call of the event,
\* as if resolve were kept in a variable of the module
ToolExecuteLatest(e, k, res) ==
  /\ k \in 1..Len(calls[e])
  /\ calls[e][k].backend = "running"
  /\ LET cur == Len(calls[e])
         w == Log(World(e), "Transcription tool executed")
         w1 == [w EXCEPT !.calls[k].toolRan = TRUE,
                         !.calls[cur] = CallOnTool(@, res)]
     IN  Commit(e, Settled(e, w1, calls[e][cur].promise, cur))
  /\ ops' = IF ev[e].kind = "transcribe" /\ Len(ops[e]) < MaxToolRuns
              THEN [ops EXCEPT ![e] = Append(@, [ok |-> TRUE, v |-> res])]
              ELSE ops
  /\ UNCHANGED <<ev, localBotId, proc>>

\* the backend executes the output tool of call k with arguments res
ToolExecute(e, k, res) ==
  /\ k \in 1..Len(calls[e])
  /\ calls[e][k].backend = "running"
  /\ LET w == Log(World(e), "Transcription tool executed")
         w1 == [w EXCEPT !.calls[k] = CallOnTool(@, res)]
     IN  Commit(e, Settled(e, w1, calls[e][k].promise, k))
  /\ ops' = IF ev[e].kind = "transcribe" /\ Len(ops[e]) < MaxToolRuns
              THEN [ops EXCEPT ![e] = Append(@, [ok |-> TRUE, v |-> res])]
              ELSE ops
  /\ UNCHANGED <<ev, localBotId, proc>>

\* generateText of call k returns
BackendReturn(e, k) ==
  /\ k \in 1..Len(calls[e])
  /\ calls[e][k].backend = "running"
  /\ Commit(e, [World(e) EXCEPT !.calls[k] = CallOnReturn(@)])
  /\ UNCHANGED <<ev, localBotId, ops, proc>>

\* generateText of call k throws err
BackendThrow(e, k, err) ==
  /\ k \in 1..Len(calls[e])
  /\ calls[e][k].backend = "running"
  /\ LET w == Log(World(e), "Error during transcription")
         w1 == [w EXCEPT !.calls[k] = CallOnThrow(@, err)]
     IN  Commit(e, Settled(e, w1, calls[e][k].promise, k))
  /\ UNCHANGED <<ev, localBotId, ops, proc>>

\* the 60 s timer of call k fires
TimeoutFire(e, k) ==
  /\ k \in 1..Len(calls[e])
  /\ calls[e][k].timer = "armed" /\ calls[e][k].rem = 0
  /\ LET w == [World(e) EXCEPT !.calls[k] = CallOnTimeout(@)]
     IN  Commit(e, Settled(e, w, calls[e][k].promise, k))
  /\ UNCHANGED <<ev, localBotId, ops, proc>>

PendingSend(e) ==
  {n \in 1..Len(sent) : sent[n].e = e /\ sent[n].status = "pending"}

\* the sendMessage call the handler of e awaits settles
SendSettle(e, ok) ==
  /\ h[e].pc \in {"sendOk", "sendFail", "sendUnsupported", "sendGreeting"}
  /\ \E n \in PendingSend(e) :
       LET w == [World(e) EXCEPT
                   !.sent[n].status = IF ok THEN "ok" ELSE "failed"]
           voice == ev[e].kind = "voice"
       IN  Commit(e,
             CASE h[e].pc = "sendOk" ->
                    IF voice THEN VoiceReplySettled(e, w, ok)
                             ELSE DocReplySettled(e, w, ok)
               [] h[e].pc = "sendFail" ->
                    IF voice THEN VoiceFailureReplySettled(e, w, ok)
                             ELSE DocFailureReplySettled(e, w, ok)
               [] h[e].pc = "sendUnsupported" ->
                    DocUnsupportedReplySettled(e, w, ok)
               [] OTHER -> ChatMemberReplySettled(e, w, ok))
  /\ UNCHANGED <<ev, localBotId, ops, proc>>

\* the k-th interval timer of the typing session of e fires: a typing signal
TypingFire(e, k) ==
  /\ k \in LiveTimers(ty[e]) /\ ty[e].rems[k] = 0
  /\ ty' = [ty EXCEPT ![e] = TypingOnInterval(@, k)]
  /\ UNCHANGED <<ev, h, calls, sent, localBotId, ops, proc>>

\* a countdown is running / has reached zero
TimerRunning(e) ==
  \/ h[e].r.st = "sleeping"
  \/ \E k \in DOMAIN calls[e] : calls[e][k].timer = "armed"
  \/ LiveTimers(ty[e]) # {}

TimerDue(e) ==
  \/ h[e].r.st = "sleeping" /\ h[e].r.rem = 0
  \/ \E k \in DOMAIN calls[e] : calls[e][k].timer = "armed" /\ calls[e][k].rem = 0
  \/ \E k \in LiveTimers(ty[e]) : ty[e].rems[k] = 0

\* one second passes
Tick ==
  /\ \A e \in Events : ~TimerDue(e)
  /\ \E e \in Events : TimerRunning(e)
  /\ h' = [e \in Events |->
             IF h[e].r.st = "sleeping"
               THEN [h[e] EXCEPT !.r.rem = @ - 1, !.r.waited = @ + 1]
               ELSE h[e]]
  /\ calls' = [e \in Events |->
                 [k \in 1..Len(calls[e]) |->
                    IF calls[e][k].timer = "armed"
                      THEN [calls[e][k] EXCEPT !.rem = @ - 1]
                      ELSE calls[e][k]]]
  /\ ty' = [e \in Events |->
              [ty[e] EXCEPT
                 !.rems = [k \in 1..Len(ty[e].rems) |->
                             IF ty[e].rems[k] > 0 THEN ty[e].rems[k] - 1
                                                  ELSE ty[e].rems[k]],
                 !.since = [k \in 1..Len(ty[e].since) |->
                              IF ty[e].rems[k] > 0 THEN ty[e].since[k] + 1
                                                   ELSE ty[e].since[k]]]]
  /\ UNCHANGED <<ev, sent, localBotId, ops, proc>>

-----------------------------------------------------------------------------
(* Stand-alone calls of retry, of transcribeAudio and of a typing session *)

RetryCalls ==
  {[Event("retry", o) EXCEPT !.retries = n, !.delay = d] :
     o \in Origins, n \in 0..MaxRetries, d \in 0..MaxDelay}

TranscribeCalls ==
  {[Event("transcribe", o) EXCEPT !.mime_type = m] :
     o \in Origins, m \in supportedAudioMimeTypes}

TypingSessions == {Event("typing", o) : o \in Origins}

\* retry(op, retries, delay) is called
RetryCall(e) ==
  /\ ev[e].kind = "retry" /\ h[e].pc = "new"
  /\ LET r == RetryEnter(ev[e].retries, ev[e].delay) IN
     h' = [h EXCEPT ![e].r = r, ![e].stage = "op",
                    ![e].pc = IF r.st = "thrown" THEN "done" ELSE "await"]
  /\ UNCHANGED <<ev, ty, calls, sent, localBotId, ops, proc>>

Operating(e) ==
  h[e].pc = "await" /\ h[e].stage = "op" /\ h[e].r.st = "calling"

\* the operation given to retry resolves with v
OpResolve(e, v) ==
  /\ Operating(e)
  /\ Commit(e, FnResolved(e, World(e), v))
  /\ ops' = [ops EXCEPT ![e] = Append(@, [ok |-> TRUE, v |-> v])]
  /\ UNCHANGED <<ev, localBotId, proc>>

\* the operation given to retry rejects with err
OpReject(e, err) ==
  /\ Operating(e)
  /\ Commit(e, FnRejected(e, World(e), err))
  /\ ops' = [ops EXCEPT ![e] = Append(@, [ok |-> FALSE, v |-> err])]
  /\ UNCHANGED <<ev, localBotId, proc>>

\* transcribeAudio(audioBuffer, mimeType) is called
TranscribeCall(e) ==
  /\ ev[e].kind = "transcribe" /\ h[e].pc = "new"
  /\ Commit(e, TranscribeAudio([World(e) EXCEPT !.h.pc = "await",
                                                !.h.stage = "transcribe"],
                               ev[e].mime_type))
  /\ UNCHANGED <<ev, localBotId, ops, proc>>

ExtractCalls == {Event("extract", o) : o \in Origins}
Extraction(e) == ev[e].kind = "extract" /\ h[e].pc = "await"
Transcoding(e) == Extraction(e) /\ h[e].x.cmd = "running"
ExtractStep(e, x) ==
  /\ h' = [h EXCEPT ![e].x = x]
  /\ UNCHANGED <<ev, ty, calls, sent, localBotId, ops, proc>>

\* extractAudioFromVideoNote(bot, fileId) is called: lines 54-57
ExtractCall(e) ==
  /\ ev[e].kind = "extract" /\ h[e].pc = "new"
  /\ h' = [h EXCEPT ![e].pc = "await", ![e].x.st = "download",
                    ![e].x.logs = {"Downloading video note for audio extraction..."}]
  /\ UNCHANGED <<ev, ty, calls, sent, localBotId, ops, proc>>

\* the download of the video note rejected: the call rejects with that error
ExtractDownloadError(e, err) ==
  /\ Extraction(e) /\ h[e].x.st = "download"
  /\ ExtractStep(e, Reject([h[e].x EXCEPT !.st = "returned"], <<err>>))

\* the download resolved: the temporary file is written
ExtractDownloaded(e, written, err, ok) ==
  /\ Extraction(e) /\ h[e].x.st = "download"
  /\ ExtractStep(e, ExtractOnDownloaded(
                      [h[e].x EXCEPT !.logs = @ \cup {"Video note downloaded"}],
                      written, err, ok))

\* in the same turn, the executor of the promise runs
ExtractSetup(e, threw, err) ==
  /\ Extraction(e) /\ h[e].x.st = "setup"
  /\ ExtractStep(e, ExtractOnSetup(h[e].x, threw, err))

\* ffmpeg wrote a line to stderr
FfmpegStderr(e, stderrLine) ==
  /\ Transcoding(e)
  /\ ExtractStep(e, ExtractOnStderr(h[e].x, stderrLine))

\* the output stream delivered a chunk of n bytes
FfmpegData(e, n) ==
  /\ Transcoding(e) /\ h[e].x.chunks < MaxChunks
  /\ ExtractStep(e, ExtractOnData(h[e].x, n))

\* the command emitted 'error'
FfmpegError(e, message, ok) ==
  /\ Transcoding(e)
  /\ ExtractStep(e, ExtractOnError(h[e].x, message, ok))

\* the command emitted 'end'
FfmpegEnd(e, ok) ==
  /\ Transcoding(e)
  /\ ExtractStep(e, ExtractOnEnd(h[e].x, ok))

\* the output stream emitted 'error'
FfmpegStreamError(e, message, ok) ==
  /\ Transcoding(e) /\ ~h[e].x.streamError
  /\ ExtractStep(e, ExtractOnStreamError(h[e].x, message, ok))

\* sendContinuousTypingAction(bot, chatId) was called: its start() is called
TypingStartCall(e) ==
  /\ ev[e].kind = "typing" /\ Len(ops[e]) < MaxTypingCalls
  /\ ty' = [ty EXCEPT ![e] = TypingStart(@)]
  /\ ops' = [ops EXCEPT ![e] = Append(@, [ok |-> TRUE, v |-> "start"])]
  /\ UNCHANGED <<ev, h, calls, sent, localBotId, proc>>

\* its stop() is called
TypingStopCall(e) ==
  /\ ev[e].kind = "typing" /\ Len(ops[e]) < MaxTypingCalls
  /\ ty' = [ty EXCEPT ![e] = TypingStop(@)]
  /\ ops' = [ops EXCEPT ![e] = Append(@, [ok |-> TRUE, v |-> "stop"])]
  /\ UNCHANGED <<ev, h, calls, sent, localBotId, proc>>

-----------------------------------------------------------------------------
(* The start of the process: the top level of index.ts, statement by       *)
(* statement (it runs in one turn; the callbacks of getMe() and the signal *)
(* handlers run in later turns).                                           *)

DefaultModelId == "gemini-2.5-pro-preview-05-06"
IndexHandlerNames ==
  {"chat_member", "voice", "polling_error", "webhook_error", "SIGTERM", "SIGINT"}

ProcStep(p) == proc' = p /\ UNCHANGED <<ev, h, ty, calls, sent, localBotId, ops>>

\* lines 8-13: dotenv.config() and the reads of process.env
LoadEnv ==
  /\ proc.pc = "start"
  /\ ProcStep([proc EXCEPT
       !.pc = "checkBotToken",
       !.geminiModelId = IF Falsy(proc.env.GEMINI_MODEL_ID)
                           THEN DefaultModelId
                           ELSE proc.env.GEMINI_MODEL_ID])

\* a start that reports a missing BOT_TOKEN and goes on
CheckBotTokenNoExit(p) ==
  IF Falsy(p.env.BOT_TOKEN)
    THEN [p EXCEPT !.logs = @ \cup {"BOT_TOKEN is missing from .env"},
                   !.pc = "checkGoogleApiKey"]
    ELSE [p EXCEPT !.pc = "checkGoogleApiKey"]

\* lines 15-18
CheckBotToken(p) ==
  IF Falsy(p.env.BOT_TOKEN)
    THEN Exit([p EXCEPT !.logs = @ \cup {"BOT_TOKEN is missing from .env"}], 1)
    ELSE [p EXCEPT !.pc = "checkGoogleApiKey"]

\* lines 19-24
CheckGoogleApiKey(p) ==
  IF Falsy(p.env.GOOGLE_GENERATIVE_AI_API_KEY)
    THEN Exit([p EXCEPT !.logs = @ \cup
                 {"GOOGLE_GENERATIVE_AI_API_KEY is missing from .env for Google AI"}],
              1)
    ELSE [p EXCEPT !.pc = "newBot"]

CheckConfig ==
  \/ proc.pc = "checkBotToken" /\ ProcStep(CheckBotToken(proc))
  \/ proc.pc = "checkGoogleApiKey" /\ ProcStep(CheckGoogleApiKey(proc))

\* line 26: new TelegramBot(botToken, { polling: true })
NewTelegramBot ==
  /\ proc.pc = "newBot"
  /\ ProcStep([proc EXCEPT !.pc = "getMe", !.bot = TRUE,
                           !.net = @ \cup {"polling"}])

\* lines 164-165: bot.getMe() is called
CallGetMe ==
  /\ proc.pc = "getMe"
  /\ ProcStep([proc EXCEPT !.pc = "register", !.getMe = "pending",
                           !.net = @ \cup {"getMe"}])

\* lines 182-302: bot.on(...), process.on(...), log('Bot is starting...')
RegisterHandlers ==
  /\ proc.pc = "register"
  /\ ProcStep([proc EXCEPT !.pc = "running", !.handlers = IndexHandlerNames,
                           !.logs = @ \cup {"Bot is starting..."}])

\* lines 166-176: getMe() resolved with me; hasId: me && me.id
IndexGetMeThen(hasId) ==
  /\ proc.pc = "running" /\ proc.getMe = "pending"
  /\ IF hasId
       THEN /\ proc' = [proc EXCEPT !.getMe = "resolved",
                                    !.logs = @ \cup {"Bot initialized"}]
            /\ localBotId' = Me.id
       ELSE /\ proc' = Exit([proc EXCEPT !.getMe = "noId",
                                         !.logs = @ \cup {"Failed to get bot info"}],
                            1)
            /\ UNCHANGED localBotId
  /\ UNCHANGED <<ev, h, ty, calls, sent, ops>>

\* lines 177-180: getMe() rejected
IndexGetMeCatch ==
  /\ proc.pc = "running" /\ proc.getMe = "pending"
  /\ ProcStep(Exit([proc EXCEPT !.getMe = "rejected",
                                !.logs = @ \cup {"Failed to get bot info"}], 1))

\* lines 274-300: SIGTERM or SIGINT; polling: bot.isPolling(); stopped:
\* stopPolling() did not throw
OnSignal(sig, polling, stopped) ==
  /\ proc.pc = "running" /\ sig \in proc.handlers
  /\ LET p1 == [proc EXCEPT !.logs = @ \cup {"signal received"}] IN
     ProcStep(IF ~polling
                THEN Exit(p1, 0)
                ELSE IF stopped
                  THEN Exit([p1 EXCEPT !.logs = @ \cup {"Bot polling stopped."},
                                       !.net = @ \ {"polling"}], 0)
                  ELSE Exit([p1 EXCEPT !.logs = @ \cup {"Error during shutdown"}],
                            1))

-----------------------------------------------------------------------------
(* Specifications *)

InitWith(inputs) ==
  /\ ev \in {[e \in {1} |-> x] : x \in inputs}
  /\ h = [e \in {1} |-> NoHandler]
  /\ ty = [e \in {1} |-> TypingNew]
  /\ calls = [e \in {1} |-> <<>>]
  /\ sent = <<>>
  /\ localBotId = 0
  /\ ops = [e \in {1} |-> <<>>]
  /\ proc = Listening

TimerActions ==
  \/ \E e \in Events : RetryDelayElapsed(e)
  \/ Tick

TranscribeActions ==
  \/ \E e \in Events, k \in 1..DefaultRetries, res \in Results :
       ToolExecute(e, k, res)
  \/ \E e \in Events, k \in 1..DefaultRetries : BackendReturn(e, k)
  \/ \E e \in Events, k \in 1..DefaultRetries, err \in BackendErrors :
       BackendThrow(e, k, err)
  \/ \E e \in Events, k \in 1..DefaultRetries : TimeoutFire(e, k)

\* one inbound event handled by the handlers of telegramHandlers.ts
Init == InitWith(VoiceEvents \cup DocumentEvents \cup ChatMemberEvents)

Next ==
  \/ \E e \in Events : OnVoice(e)
  \/ \E e \in Events : OnMessage(e)
  \/ \E e \in Events : OnChatMember(e)
  \/ GetMeThen(Me.id)
  \/ GetMeThenNoId
  \/ GetMeCatch
  \/ \E e \in Events : DownloadEnd(e)
  \/ \E e \in Events, err \in DownloadErrors : DownloadError(e, err)
  \/ TranscribeActions
  \/ \E e \in Events, ok \in BOOLEAN : SendSettle(e, ok)
  \/ \E e \in Events, k \in 1..2 : TypingFire(e, k)
  \/ TimerActions

Spec == Init /\ [][Next]_vars

\* every download and every sendMessage call settles, and the event loop runs
\* the timer callbacks when their time has come
EverythingSettles ==
  /\ WF_vars(\E e \in Events : DownloadSettles(e))
  /\ WF_vars(\E e \in Events, ok \in BOOLEAN : SendSettle(e, ok))
  /\ WF_vars(\E e \in Events : RetryDelayElapsed(e))
  /\ WF_vars(\E e \in Events, k \in 1..DefaultRetries : TimeoutFire(e, k))
  /\ WF_vars(\E e \in Events, k \in 1..2 : TypingFire(e, k))
  /\ WF_vars(Tick)

SpecFair == Spec /\ EverythingSettles

\* one stand-alone call of retry
InitRetry == InitWith(RetryCalls)

NextRetry ==
  \/ \E e \in Events : RetryCall(e)
  \/ \E e \in Events, v \in OpValues : OpResolve(e, v)
  \/ \E e \in Events, err \in OpErrors : OpReject(e, err)
  \/ TimerActions

SpecRetry == InitRetry /\ [][NextRetry]_vars

\* one stand-alone call of transcribeAudio
InitTranscribe == InitWith(TranscribeCalls)

NextTranscribe ==
  \/ \E e \in Events : TranscribeCall(e)
  \/ TranscribeActions
  \/ Tick

SpecTranscribe == InitTranscribe /\ [][NextTranscribe]_vars

\* the event loop runs a timer callback once its time has come
TimersFire ==
  /\ WF_vars(Tick)
  /\ WF_vars(\E e \in Events, k \in 1..DefaultRetries : TimeoutFire(e, k))

SpecTranscribeFair == SpecTranscribe /\ TimersFire

\* one typing session on which start() and stop() are called in any order
InitTyping == InitWith(TypingSessions)

NextTyping ==
  \/ \E e \in Events : TypingStartCall(e)
  \/ \E e \in Events : TypingStopCall(e)
  \/ \E e \in Events, k \in 1..MaxTypingCalls : TypingFire(e, k)
  \/ Tick

SpecTyping == InitTyping /\ [][NextTyping]_vars

\* one stand-alone call of extractAudioFromVideoNote
ChunkSizes == {1, 24, 999}

InitExtract == InitWith(ExtractCalls)

NextExtract ==
  \/ \E e \in Events : ExtractCall(e)
  \/ \E e \in Events, err \in DownloadErrors : ExtractDownloadError(e, err)
  \/ \E e \in Events, written \in {"all", "part", "none"}, err \in WriteErrors,
        ok \in BOOLEAN : ExtractDownloaded(e, written, err, ok)
  \/ \E e \in Events, threw \in BOOLEAN, err \in SetupErrors :
       ExtractSetup(e, threw, err)
  \/ \E e \in Events, stderrLine \in StderrLines : FfmpegStderr(e, stderrLine)
  \/ \E e \in Events, n \in ChunkSizes : FfmpegData(e, n)
  \/ \E e \in Events, message \in FfmpegErrors, ok \in BOOLEAN :
       FfmpegError(e, message, ok)
  \/ \E e \in Events, ok \in BOOLEAN : FfmpegEnd(e, ok)
  \/ \E e \in Events, message \in StreamErrors, ok \in BOOLEAN :
       FfmpegStreamError(e, message, ok)

SpecExtract == InitExtract /\ [][NextExtract]_vars

\* a voice message and an audio document of one chat, handled by the same
\* process.  Time is left out: a timer that is running may run out at any
\* moment, so that the timers of the two events fire in every order.
PairEvents ==
  << [Event("voice", [chat |-> -7, message_id |-> 41])
        EXCEPT !.voice = TRUE, !.file_id = TRUE],
     [Event("document", [chat |-> -7, message_id |-> 43])
        EXCEPT !.mime_type = "audio/mpeg", !.file_name = "memo.mp3"] >>
PairIds == DOMAIN PairEvents
\* what the backend transcribes for each of the two messages
PairResult(e) ==
  [transcribedText |-> IF e = 1 THEN <<"t">> ELSE <<"s", "t">>, tldr |-> Null]

InitPair ==
  /\ ev = PairEvents
  /\ h = [e \in PairIds |-> NoHandler]
  /\ ty = [e \in PairIds |-> TypingNew]
  /\ calls = [e \in PairIds |-> <<>>]
  /\ sent = <<>>
  /\ localBotId = 0
  /\ ops = [e \in PairIds |-> <<>>]
  /\ proc = Listening

\* the delay of retry ran out
RetryDelayPasses(e) ==
  /\ h[e].pc = "await" /\ h[e].r.st = "sleeping"
  /\ Commit(e, RetryResumed(e, [World(e) EXCEPT !.h.r.rem = 0,
                                                !.h.r.waited = @ + h[e].r.rem]))
  /\ UNCHANGED <<ev, localBotId, ops, proc>>

\* the 60 s of call k ran out
TimeoutPasses(e, k) ==
  /\ k \in 1..Len(calls[e])
  /\ calls[e][k].timer = "armed"
  /\ LET w == [World(e) EXCEPT !.calls[k] = CallOnTimeout([@ EXCEPT !.rem = 0])]
     IN  Commit(e, Settled(e, w, calls[e][k].promise, k))
  /\ UNCHANGED <<ev, localBotId, ops, proc>>

\* the 6 s of the k-th interval timer ran out
TypingPasses(e, k) ==
  /\ k \in LiveTimers(ty[e])
  /\ ty' = [ty EXCEPT ![e] = TypingOnInterval([@ EXCEPT !.rems[k] = 0], k)]
  /\ UNCHANGED <<ev, h, calls, sent, localBotId, ops, proc>>

NextPair ==
  \/ \E e \in Events : OnVoice(e)
  \/ \E e \in Events : OnMessage(e)
  \/ \E e \in Events : DownloadSettles(e)
  \/ \E e \in Events : RetryDelayPasses(e)
  \/ \E e \in Events, k \in 1..DefaultRetries : ToolExecute(e, k, PairResult(e))
  \/ \E e \in Events, k \in 1..DefaultRetries : BackendReturn(e, k)
  \/ \E e \in Events, k \in 1..DefaultRetries, err \in BackendErrors :
       BackendThrow(e, k, err)
  \/ \E e \in Events, k \in 1..DefaultRetries : TimeoutPasses(e, k)
  \/ \E e \in Events, ok \in BOOLEAN : SendSettle(e, ok)
  \/ \E e \in Events : TypingPasses(e, 1)

SpecPair == InitPair /\ [][NextPair]_vars

\* the event loop serves the document, whatever becomes of the voice message
TheVoice == CHOOSE e \in PairIds : PairEvents[e].kind = "voice"
TheDocument == CHOOSE e \in PairIds : PairEvents[e].kind = "document"
DocumentServed ==
  /\ WF_vars(OnMessage(TheDocument))
  /\ WF_vars(DownloadSettles(TheDocument))
  /\ WF_vars(RetryDelayPasses(TheDocument))
  /\ WF_vars(TimeoutPasses(TheDocument, 1))
  /\ WF_vars(\E ok \in BOOLEAN : SendSettle(TheDocument, ok))

SpecPairFair == SpecPair /\ DocumentServed

\* a voice message and an audio document of two chats, handled by the same
\* process, with time left out as above
CrossEvents ==
  << [Event("voice", [chat |-> -7, message_id |-> 41])
        EXCEPT !.voice = TRUE, !.file_id = TRUE],
     [Event("document", [chat |-> 9, message_id |-> 42])
        EXCEPT !.mime_type = "audio/mpeg", !.file_name = "memo.mp3"] >>

InitCross ==
  /\ ev = CrossEvents
  /\ h = [e \in PairIds |-> NoHandler]
  /\ ty = [e \in PairIds |-> TypingNew]
  /\ calls = [e \in PairIds |-> <<>>]
  /\ sent = <<>>
  /\ localBotId = 0
  /\ ops = [e \in PairIds |-> <<>>]
  /\ proc = Listening

SpecCross == InitCross /\ [][NextPair]_vars

\* the start of the process of index.ts, in any environment
InitStartup ==
  /\ ev = <<>> /\ h = <<>> /\ ty = <<>> /\ calls = <<>> /\ ops = <<>>
  /\ sent = <<>>
  /\ localBotId = 0
  /\ proc \in {NoProcess(env) : env \in Envs}

NextStartup ==
  \/ LoadEnv
  \/ CheckConfig
  \/ NewTelegramBot
  \/ CallGetMe
  \/ RegisterHandlers
  \/ \E hasId \in BOOLEAN : IndexGetMeThen(hasId)
  \/ IndexGetMeCatch
  \/ \E sig \in {"SIGTERM", "SIGINT"}, polling \in BOOLEAN, stopped \in BOOLEAN :
       OnSignal(sig, polling, stopped)

SpecStartup == InitStartup /\ [][NextStartup]_vars

-----------------------------------------------------------------------------
(* Claims *)

Frame(e) == h[e].r
Failed(a) == {j \in 1..Len(a) : ~a[j].ok}
Succeeded(a) == {j \in 1..Len(a) : a[j].ok}

\* C1: retry(op, n, d) invokes op at most n times; once an attempt succeeds
\* no further attempt is made and retry returns that attempt's value; when all
\* n attempts failed, retry throws the error of the n-th attempt
C1_RetryContract ==
  \A e \in Events :
    LET r == Frame(e)
        n == ev[e].retries
        a == ops[e]
    IN  /\ r.nCalls <= n /\ Len(a) <= r.nCalls
        /\ \A j \in Succeeded(a) : j = Len(a) /\ r.st = "returned"
        /\ r.st = "returned" =>
             /\ Len(a) = r.nCalls /\ a[Len(a)].ok
             /\ r.out = a[Len(a)].v
        /\ (r.st = "thrown" /\ n >= 1) =>
             /\ Len(a) = n /\ Failed(a) = 1..n
             /\ r.out = a[n].v

\* retry threw after three failed attempts whose errors differ
C1_Witness ==
  \E e \in Events :
    /\ ev[e].retries = 3 /\ Frame(e).st = "thrown" /\ Len(ops[e]) = 3
    /\ ops[e][1].v # ops[e][3].v /\ ops[e][2].v # ops[e][3].v

AllCalls == {p \in Events \X (1..DefaultRetries) : p[2] <= Len(calls[p[1]])}
Call(p) == calls[p[1]][p[2]]

\* the output tool ran, resp. generateText threw, before the 60 s timer fired:
\* only these two clear an armed timer
ToolInTime(c) == c.timer = "cleared" /\ c.toolRan
ThrewInTime(c) == c.timer = "cleared" /\ ~c.toolRan
IsSettled(c) == c.promise # "pending"
TimedOut(c) == c.promise = "rejected" /\ c.error = TimeoutError

\* C2 as stated: an invocation in which the output tool has not executed
\* within 60 seconds rejects with the timeout error
C2_Original ==
  \A p \in AllCalls :
    (IsSettled(Call(p)) /\ ~ToolInTime(Call(p))) => TimedOut(Call(p))

C2_TimeoutInv ==
  \A p \in AllCalls :
    /\ Call(p).promise = "pending" => Call(p).timer = "armed"
    /\ (IsSettled(Call(p)) /\ ~ToolInTime(Call(p)) /\ ~ThrewInTime(Call(p)))
         => TimedOut(Call(p))

C2_Stable ==
  \A p \in AllCalls :
    IsSettled(Call(p)) =>
      /\ calls'[p[1]][p[2]].promise = Call(p).promise
      /\ calls'[p[1]][p[2]].result = Call(p).result
      /\ calls'[p[1]][p[2]].error = Call(p).error

\* C2, amended: an invocation in which, within 60 seconds of its start, the
\* output tool has not executed and generateText has not thrown rejects with
\* the timeout error (it is never pending without its timer running), and no
\* backend response after a settlement changes the settled outcome
C2_TimeoutSettles == [] C2_TimeoutInv /\ [][C2_Stable]_vars

\* a call timed out, and afterwards its backend executed the tool and ended
C2_Witness ==
  \E p \in AllCalls :
    /\ Call(p).timer = "fired" /\ TimedOut(Call(p))
    /\ Call(p).toolRan /\ Call(p).backend = "ended"

VoiceEventsIn == {e \in Events : ev[e].kind = "voice"}
DocumentEventsIn == {e \in Events : ev[e].kind = "document"}
SentOf(e) == {n \in 1..Len(sent) : sent[n].e = e}

\* C3: a voice event without voice object or without file_id starts no typing
\* signal, makes no download call and no transcription call and sends no
\* message; it only writes one log line
C3_NoFileReference ==
  \A e \in VoiceEventsIn :
    (~ev[e].voice \/ ~ev[e].file_id) =>
      /\ Starts(ty[e]) = 0 /\ ty[e].stops = 0
      /\ Frame(e).nCalls = 0 /\ h[e].stage = "none"
      /\ calls[e] = <<>>
      /\ SentOf(e) = {}
      /\ h[e].pc \in {"new", "done"}
      /\ h[e].logs = IF h[e].pc = "done"
                       THEN {"without voice data or file_id"} ELSE {}

\* the handler of a voice event with a voice object but no file_id returned
C3_Witness ==
  \E e \in VoiceEventsIn :
    ev[e].voice /\ ~ev[e].file_id /\ h[e].pc = "done"

Min(S) == CHOOSE x \in S : \A y \in S : x <= y
Occurs(x, text) ==
  {i \in 1..(Len(text) - Len(x) + 1) : SubSeq(text, i, i + Len(x) - 1) = x}
NonBlank(tldr) == ~tldr.null /\ \E i \in 1..Len(tldr.s) : tldr.s[i] # " "
Threaded(e, m) ==
  m.chat = ev[e].chat /\ m.reply_to_message_id = <<ev[e].message_id>>
TranscriptionSucceeded(e) ==
  h[e].cur # 0 /\ calls[e][h[e].cur].promise = "resolved"

\* C4: when the transcription of a voice event succeeded with
\* {transcribedText, tldr}, the reply is sent to the originating message; its
\* text is transcribedText when tldr is null or empty, and holds the tldr text
\* followed, later in the text, by transcribedText when tldr is non-blank
C4_VoiceReplyFormat ==
  \A e \in VoiceEventsIn :
    TranscriptionSucceeded(e) =>
      /\ SentOf(e) # {}
      /\ LET m == sent[Min(SentOf(e))]
             res == calls[e][h[e].cur].result
         IN  /\ Threaded(e, m)
             /\ (res.tldr = Null \/ res.tldr = Str(<<>>)) =>
                  m.text = res.transcribedText
             /\ NonBlank(res.tldr) =>
                  \E i \in Occurs(res.tldr.s, m.text),
                     j \in Occurs(res.transcribedText, m.text) :
                    i + Len(res.tldr.s) <= j

\* a reply with a TLDR that also occurs inside the transcript was delivered
C4_Witness ==
  \E e \in VoiceEventsIn :
    /\ TranscriptionSucceeded(e)
    /\ calls[e][h[e].cur].result = [transcribedText |-> <<"s", "t">>,
                                    tldr |-> Str(<<"s">>)]
    /\ \E n \in SentOf(e) : sent[n].status = "ok"
    /\ h[e].pc = "done"

DownloadGaveUp(e) == h[e].stage = "download" /\ Frame(e).st = "thrown"

\* C5: when the download of a voice event failed on 3 consecutive attempts, no
\* transcription call is made, exactly one message is sent, with the fixed
\* failure text and as a reply to the originating message, and the typing
\* session was started once and stopped once
C5_DownloadFailsThrice ==
  \A e \in VoiceEventsIn :
    DownloadGaveUp(e) =>
      /\ Frame(e).nCalls = 3
      /\ calls[e] = <<>>
      /\ Cardinality(SentOf(e)) = 1
      /\ \A n \in SentOf(e) :
           sent[n].text = VoiceFailureText /\ Threaded(e, sent[n])
      /\ Starts(ty[e]) = 1 /\ ty[e].stops = 1 /\ LiveTimers(ty[e]) = {}

\* the handler returned after three failed downloads and a delivered reply
C5_Witness ==
  \E e \in VoiceEventsIn :
    /\ DownloadGaveUp(e) /\ h[e].pc = "done"
    /\ \E n \in SentOf(e) : sent[n].status = "ok"

Processed == VoiceEventsIn \cup DocumentEventsIn
FailureTextOf(e) ==
  IF ev[e].kind = "voice" THEN VoiceFailureText ELSE DocFailureText
\* the download stage or the transcription stage of e failed for good
StageFailed(e) ==
  \/ Frame(e).st = "thrown"
  \/ /\ ev[e].kind = "document" /\ h[e].stage = "transcribe"
     /\ calls[e][h[e].cur].promise = "rejected"

\* C6: when the download stage or the transcription stage of a voice or
\* audio-document event failed, exactly one failure reply is attempted; its
\* text is the handler's fixed string, whatever the stage and the error, and
\* it replies to the originating message
C6_OneFixedFailureReply ==
  \A e \in Processed :
    StageFailed(e) =>
      /\ Cardinality(SentOf(e)) = 1
      /\ \A n \in SentOf(e) :
           sent[n].text = FailureTextOf(e) /\ Threaded(e, sent[n])

\* the download of an audio document failed for good and the reply was sent
C6_Witness ==
  \E e \in DocumentEventsIn :
    /\ DownloadGaveUp(e) /\ h[e].pc = "done"
    /\ \E n \in SentOf(e) : sent[n].status = "ok"

\* C7: no handler invocation ends with an error propagating out of it
C7_NoErrorLeavesHandler == \A e \in Events : h[e].pc # "threw"

Finished(e) == h[e].pc \in {"done", "threw"}
EmitsTyping(e) ==
  \/ Len(ty'[e].rems) > Len(ty[e].rems)
  \/ \E k \in LiveTimers(ty[e]) :
       ty[e].rems[k] = 0 /\ ty'[e].rems[k] = TypingInterval

C8_NoneScheduled ==
  \A e \in Processed :
    Finished(e) =>
      /\ LiveTimers(ty[e]) = {}
      /\ Starts(ty[e]) >= 1 => ty[e].stops >= 1

C8_NoneEmitted == \A e \in Processed : Finished(e) => ~EmitsTyping(e)

\* C8: once the handler invocation of a voice or audio-document event has
\* finished, on whatever path, its typing session has been stopped, has no
\* timer scheduled and emits no further typing signal
C8_TypingStoppedOnExit == [] C8_NoneScheduled /\ [][C8_NoneEmitted]_vars

\* the document handler ended with the error of a failed failure reply
C8_Witness ==
  \E e \in DocumentEventsIn :
    h[e].pc = "threw" /\ Starts(ty[e]) = 1 /\ Cardinality(SentOf(e)) = 2

\* C9: the typing session is started before the first download call, and it
\* has been stopped when the reply (success or failure) is sent
C9_StopBeforeReply ==
  \A e \in Processed :
    /\ Frame(e).nCalls >= 1 => Starts(ty[e]) >= 1
    /\ (Starts(ty[e]) >= 1 /\ SentOf(e) # {}) =>
         ty[e].stops >= 1 /\ LiveTimers(ty[e]) = {}

\* C10 as stated: after a failed send of a reply no further sendMessage call
\* is made for the event
C10_Original ==
  \A e \in Processed :
    \A n \in SentOf(e) :
      sent[n].status = "failed" => \A m \in SentOf(e) : m <= n

\* C10, amended: at most two sendMessage calls are made for an event and no
\* text is sent twice; a failed send of the failure reply is followed by no
\* further sendMessage call (the voice handler logs it and returns); a second
\* call is made only after the send of the success reply failed, and it sends
\* the failure reply
C10_DeliveryFailure ==
  \A e \in Processed :
    /\ Cardinality(SentOf(e)) <= 2
    /\ \A n \in SentOf(e), m \in SentOf(e) :
         n < m =>
           /\ sent[n].status = "failed" /\ sent[n].text # FailureTextOf(e)
           /\ sent[m].text = FailureTextOf(e)
    /\ \A n \in SentOf(e) :
         (sent[n].status = "failed" /\ sent[n].text = FailureTextOf(e)) =>
           /\ \A m \in SentOf(e) : m <= n
           /\ ev[e].kind = "voice" =>
                h[e].pc = "done" /\ "Failed to send error reply" \in h[e].logs

\* the sends of the success reply and of the failure reply both failed
C10_Witness ==
  \E e \in VoiceEventsIn :
    /\ Cardinality(SentOf(e)) = 2 /\ h[e].pc = "done"
    /\ \A n \in SentOf(e) : sent[n].status = "failed"

\* the transcription stage of e failed for good and the handler gave it up
TranscriptionGaveUp(e) == h[e].stage = "transcribe" /\ StageFailed(e)

\* C11: on the voice path and on the audio-document path alike, a download is
\* given up only after 3 failed download attempts and a transcription is given
\* up only after 3 failed transcribeAudio attempts
C11_TranscriptionRetried ==
  \A e \in Processed :
    /\ DownloadGaveUp(e) => Frame(e).nCalls = DefaultRetries
    /\ TranscriptionGaveUp(e) =>
         /\ Len(calls[e]) = DefaultRetries
         /\ \A k \in 1..Len(calls[e]) : calls[e][k].promise = "rejected"

Untouched(e) ==
  /\ Starts(ty[e]) = 0 /\ ty[e].stops = 0
  /\ Frame(e).nCalls = 0 /\ h[e].stage = "none"
  /\ calls[e] = <<>>

\* C12: a document whose MIME type starts with "audio/" but is not in the
\* allow-list gets exactly one "format not supported" reply, threaded to the
\* message; a document whose MIME type is not audio-prefixed or is absent gets
\* no reply; in both cases no download, no transcription and no typing signal
\* occurs
C12_UnsupportedDocument ==
  \A e \in DocumentEventsIn :
    ev[e].mime_type \notin supportedAudioMimeTypes =>
      /\ Untouched(e)
      /\ IF ev[e].mime_type \in AudioPrefixed
           THEN h[e].pc # "new" =>
                  /\ Cardinality(SentOf(e)) = 1
                  /\ \A n \in SentOf(e) :
                       /\ sent[n].text = UnsupportedText(ev[e].mime_type)
                       /\ Threaded(e, sent[n])
           ELSE SentOf(e) = {}

\* the "format not supported" reply to an audio/flac document was delivered
C12_Witness ==
  \E e \in DocumentEventsIn :
    /\ ev[e].mime_type = "audio/flac" /\ h[e].pc = "done"
    /\ \E n \in SentOf(e) : sent[n].status = "ok"

DocHeader(e) ==
  <<"<b>Transcription (Document: ",
    IF ev[e].file_name # "" THEN ev[e].file_name ELSE "audio file",
    "):</b>\n">>

TldrHeadings == {"<b>TLDR:</b>\n", "\n\n<b>TLDR:</b>\n"}
HasTldrSection(text) == \E i \in 1..Len(text) : text[i] \in TldrHeadings
Blank(tldr) == tldr.null \/ \A i \in 1..Len(tldr.s) : tldr.s[i] = " "

\* C14: when the transcription of a voice or audio-document event succeeded
\* with a tldr that is null, empty or whitespace-only, the reply holds no TLDR
\* section
C14_BlankTldrNoSection ==
  \A e \in Processed :
    (TranscriptionSucceeded(e) /\ Blank(calls[e][h[e].cur].result.tldr)) =>
      /\ SentOf(e) # {}
      /\ ~HasTldrSection(sent[Min(SentOf(e))].text)

TypingSessionsIn == {e \in Events : ev[e].kind = "typing"}

\* while stop() has not been called, the timer of every start() is scheduled
\* and the latest signal of every start() is at most 6 seconds old
C15_Periodic ==
  \A e \in TypingSessionsIn :
    ty[e].stops = 0 =>
      \A k \in 1..Starts(ty[e]) :
        /\ k \in LiveTimers(ty[e])
        /\ ty[e].since[k] \in 0..TypingInterval

\* a start() call emits a signal at once, and while stop() has not been called
\* a further signal of that start() comes exactly 6 seconds after its latest one
C15_Step ==
  \A e \in TypingSessionsIn :
    /\ Starts(ty'[e]) > Starts(ty[e]) => ty'[e].since[Starts(ty'[e])] = 0
    /\ \A k \in 1..Starts(ty[e]) :
         (ty[e].stops = 0 /\ ty[e].since[k] # 0 /\ ty'[e].since[k] = 0) =>
           ty[e].since[k] = TypingInterval

\* C15: start() emits one typing signal immediately and then one further
\* typing signal every 6 seconds for as long as stop() has not been called
C15_TypingEverySixSeconds == [] C15_Periodic /\ [][C15_Step]_vars

\* 3 seconds after a second start(), stop() not called: the timer of the first
\* start() has just emitted a further signal
C15_Witness ==
  \E e \in TypingSessionsIn :
    /\ ty[e].stops = 0 /\ Starts(ty[e]) = 2
    /\ ty[e].since = <<0, 3>>

CallsOf(e, v) == {j \in 1..Len(ops[e]) : ops[e][j].v = v}
\* start() was called once on the session of e, and stop() after it
StoppedAfterOnlyStart(e) ==
  /\ Cardinality(CallsOf(e, "start")) = 1
  /\ \E i \in CallsOf(e, "start"), j \in CallsOf(e, "stop") : i < j

C16_Stopped ==
  \A e \in TypingSessionsIn :
    /\ \A j \in 1..Len(ops[e]) : ops[e][j].ok
    /\ ty[e].stops = Cardinality(CallsOf(e, "stop"))
    /\ StoppedAfterOnlyStart(e) =>
         LiveTimers(ty[e]) = {} /\ ty[e].since = <<-1>>

C16_NoSignal ==
  \A e \in TypingSessionsIn :
    (StoppedAfterOnlyStart(e) /\ Starts(ty'[e]) = 1) =>
      ty'[e].since = ty[e].since

\* C16: every stop() call returns without throwing, also on a session never
\* started and when stop() was called before; once stop() was called on a
\* session started once, the session has no timer scheduled and emits no
\* further typing signal
C16_StopIsSafe == [] C16_Stopped /\ [][C16_NoSignal]_vars

\* stop() on the fresh session, then start(), then stop() a second time
C16_Witness ==
  \E e \in TypingSessionsIn :
    /\ Len(ops[e]) = 3
    /\ ops[e][1].v = "stop" /\ ops[e][2].v = "start" /\ ops[e][3].v = "stop"
    /\ ty[e].stops = 2

\* generateText returned without having executed the output tool
ReturnedWithoutTool(c) ==
  c.backend = "ended" /\ ~c.toolRan /\ c.timer # "cleared"

C17_ToolOnly ==
  \A p \in AllCalls :
    /\ Call(p).promise = "resolved" => Call(p).toolRan
    /\ ReturnedWithoutTool(Call(p)) =>
         /\ Call(p).timer = "armed" => Call(p).promise = "pending"
         /\ Call(p).timer = "fired" => TimedOut(Call(p))

\* of the one invocation of the stand-alone call
C17_ThenTimesOut ==
  (\E p \in AllCalls : ReturnedWithoutTool(Call(p)))
    ~> (\E p \in AllCalls : TimedOut(Call(p)))

\* C17: a transcribeAudio invocation is resolved only by an execution of the
\* output tool; when generateText returns normally without having executed
\* the tool the invocation is still pending, and it is then rejected with the
\* timeout error when its 60-second timer fires
C17_ToolIsOnlySuccess == [] C17_ToolOnly /\ C17_ThenTimesOut

\* generateText returned without the tool and the timer rejected the call
C17_Witness ==
  \E p \in AllCalls :
    /\ Call(p).backend = "ended" /\ ~Call(p).toolRan
    /\ Call(p).timer = "fired" /\ TimedOut(Call(p))

TranscribeCallsIn == {e \in Events : ev[e].kind = "transcribe"}

C18_FirstToolRun ==
  \A e \in TranscribeCallsIn :
    /\ Len(calls[e]) <= 1
    /\ \A k \in 1..Len(calls[e]) :
         /\ calls[e][k].toolRan <=> ops[e] # <<>>
         /\ calls[e][k].promise = "resolved" =>
              ops[e] # <<>> /\ calls[e][k].result = ops[e][1].v

\* the one generateText call of an invocation is not started again, and a
\* settled promise keeps its state, its value and its error
C18_Once ==
  /\ C2_Stable
  /\ \A p \in AllCalls :
       Call(p).backend = "ended" => calls'[p[1]][p[2]].backend = "ended"

\* the promise of the invocation settles
C18_Settles ==
  (AllCalls # {}) ~> (\E p \in AllCalls : IsSettled(Call(p)))

\* C18: a transcribeAudio invocation makes one generateText call; its promise
\* settles, and only once; when it resolves, its value is the arguments of the
\* first execution of the output tool, and a second tool execution, an error
\* thrown after the tool ran or the timer leave the settled value unchanged
C18_SettlesOnce == [] C18_FirstToolRun /\ [][C18_Once]_vars /\ C18_Settles

\* the tool ran twice with different arguments, then generateText threw: the
\* call is resolved with the arguments of the first run
C18_Witness ==
  \E e \in TranscribeCallsIn :
    /\ Len(calls[e]) = 1 /\ Len(ops[e]) = 2 /\ ops[e][1].v # ops[e][2].v
    /\ calls[e][1].promise = "resolved" /\ calls[e][1].result = ops[e][1].v
    /\ calls[e][1].backend = "ended"
    /\ "Error during transcription" \in h[e].logs

ChatMemberEventsIn == {e \in Events : ev[e].kind = "chat_member"}
Handled(e) == h[e].pc # "new"
IsGreeting(e, m) ==
  /\ m.e = e /\ m.chat = ev[e].chat /\ m.text = GreetingText
  /\ m.reply_to_message_id = <<>>

\* C19 as stated: every handled membership change whose new member is the bot
\* has a greeting sent to its chat
C19_Original ==
  \A e \in ChatMemberEventsIn :
    (ev[e].new_chat_member = Me.id /\ Handled(e)) =>
      \E n \in SentOf(e) : IsGreeting(e, sent[n])

C19_IdCache == localBotId \in {0, Me.id}

\* the handler of a membership change whose new member is the bot sends the
\* greeting to the chat when the bot id is resolved, and nothing when it is not
C19_Dispatch ==
  \A e \in ChatMemberEventsIn :
    (~Handled(e) /\ h'[e].pc # "new" /\ ev[e].new_chat_member = Me.id) =>
      IF localBotId = Me.id
        THEN /\ Len(sent') = Len(sent) + 1
             /\ SubSeq(sent', 1, Len(sent)) = sent
             /\ IsGreeting(e, sent'[Len(sent')])
        ELSE sent' = sent

\* the greeting is sent at the dispatch of the event or never
C19_NoLateGreeting ==
  \A e \in ChatMemberEventsIn :
    Handled(e) => \A n \in 1..Len(sent') : sent'[n].e = e => n <= Len(sent)

\* C19, amended: a membership change whose new member is the bot gets one
\* greeting sent to its chat when the bot's id has been resolved by the time
\* the event is handled; handled while the id is unresolved it gets none, then
\* or later
C19_GreetingWhenResolved ==
  [] C19_IdCache /\ [][C19_Dispatch /\ C19_NoLateGreeting]_vars

\* the bot was added to a chat after its id was resolved: greeting delivered
C19_Witness ==
  \E e \in ChatMemberEventsIn :
    /\ ev[e].new_chat_member = Me.id /\ h[e].pc = "done"
    /\ \E n \in SentOf(e) : IsGreeting(e, sent[n]) /\ sent[n].status = "ok"

\* C20: a membership change whose new member is not the bot never produces a
\* message, whether the bot's id is resolved or not, and starts no processing
C20_OtherMemberIgnored ==
  \A e \in ChatMemberEventsIn :
    ev[e].new_chat_member # Me.id =>
      /\ SentOf(e) = {}
      /\ Untouched(e)
      /\ h[e].pc \in {"new", "done"}

\* the membership change of another user was handled while the bot's id was
\* not resolved
C20_Witness ==
  \E e \in ChatMemberEventsIn :
    /\ ev[e].new_chat_member # Me.id /\ h[e].pc = "done"
    /\ localBotId = 0

CredentialMissing ==
  Falsy(proc.env.BOT_TOKEN) \/ Falsy(proc.env.GOOGLE_GENERATIVE_AI_API_KEY)
Exited(code) == proc.pc = "exited" /\ proc.exit = <<code>>

\* C21: when BOT_TOKEN or GOOGLE_GENERATIVE_AI_API_KEY is missing, the process
\* exits with status 1 at its check, and the TelegramBot client is never
\* constructed, no handler is ever registered and no network activity is ever
\* started
C21_MissingCredentialExits ==
  /\ CredentialMissing =>
       /\ ~proc.bot /\ proc.handlers = {} /\ proc.net = {}
       /\ proc.getMe = "none"
       /\ proc.pc \in {"start", "checkBotToken", "checkGoogleApiKey", "exited"}
       /\ proc.pc = "exited" => proc.exit = <<1>>
  /\ Falsy(proc.env.BOT_TOKEN) => proc.pc # "checkGoogleApiKey"

\* the process exited because only the AI credential is missing
C21_Witness ==
  /\ ~Falsy(proc.env.BOT_TOKEN) /\ proc.env.GOOGLE_GENERATIVE_AI_API_KEY = ""
  /\ Exited(1)
  /\ "GOOGLE_GENERATIVE_AI_API_KEY is missing from .env for Google AI" \in proc.logs

\* C22: when getMe() rejects or resolves without an id, the process has exited
\* with a non-zero status
C22_GetMeFailureExits ==
  proc.getMe \in {"noId", "rejected"} =>
    /\ proc.pc = "exited"
    /\ proc.exit # <<>> /\ proc.exit # <<0>>

ExtractCallsIn == {e \in Events : ev[e].kind = "extract"}
X(e) == h[e].x

\* C23: once the temporary file was created, every path on which the call has
\* settled has tried to delete it, and the file is gone unless a deletion
\* failed
C23_TempFileDeleted ==
  \A e \in ExtractCallsIn :
    (X(e).promise # "pending" /\ X(e).file # "none") =>
      /\ X(e).unlinks # <<>>
      /\ X(e).file = "exists" => \E j \in 1..Len(X(e).unlinks) : ~X(e).unlinks[j]


\* the command emitted 'end' and nothing had settled the call before
EndedFirst(e) == X(e).cmd = "ended" /\ ~X(e).streamError
TooSmall(e) == X(e).promise = "rejected" /\ X(e).error = TooSmallError
Extracted(e) == X(e).promise = "resolved" /\ X(e).result = X(e).bytes

FailedFirst(e) == X(e).cmd = "failed" /\ ~X(e).streamError
\* what the transcoder reported says that there is no (audio) stream
ReportedNoAudio(e) ==
  \/ IncludesNoStream(X(e).message)
  \/ IncludesNoAudio(X(e).message)
  \/ X(e).noStream

\* C25: an extraction whose transcoder failed reporting that there is no
\* stream rejects with the no-audio error; any other failure of the transcoder
\* rejects with the generic error that carries its message; no other path
\* rejects with the no-audio error, which differs from the too-small error
C25_NoAudioError ==
  /\ NoAudioError # TooSmallError
  /\ \A e \in ExtractCallsIn :
       /\ (FailedFirst(e) /\ ReportedNoAudio(e)) =>
            X(e).promise = "rejected" /\ X(e).error = NoAudioError
       /\ (FailedFirst(e) /\ ~ReportedNoAudio(e)) =>
            /\ X(e).promise = "rejected"
            /\ X(e).error = ExtractError(X(e).message)
            /\ X(e).error # NoAudioError
       /\ X(e).error = NoAudioError => FailedFirst(e) /\ ReportedNoAudio(e)

C25_Witness ==
  \E e \in ExtractCallsIn :
    /\ FailedFirst(e) /\ X(e).noStream
    /\ X(e).message = "ffmpeg exited with code 1"
    /\ X(e).promise = "rejected" /\ X(e).error = NoAudioError


SuccessReplies(e) == {n \in SentOf(e) : sent[n].text # VoiceFailureText}
VoiceGaveUp(e) == h[e].stage \in {"download", "transcribe"} /\ Frame(e).st = "thrown"
VoiceStages(e) ==
  /\ h[e].stage \in {"none", "download", "transcribe"}
  /\ h[e].stage = "none" => Frame(e).nCalls = 0 /\ calls[e] = <<>>
  /\ h[e].stage = "download" =>
       /\ Frame(e).nCalls \in 1..DefaultRetries
       /\ calls[e] = <<>>
  /\ calls[e] # <<>> => "Voice file downloaded" \in h[e].logs
  /\ Len(calls[e]) <= DefaultRetries
  /\ SuccessReplies(e) # {} => TranscriptionSucceeded(e)
  /\ VoiceGaveUp(e) => SentOf(e) # {} /\ SuccessReplies(e) = {}
\* a stage is entered from the one before it, the transcription only in the
\* step in which a running download attempt resolved
VoiceStageStep(e) ==
  h'[e].stage # h[e].stage =>
    \/ h[e].stage = "none" /\ h'[e].stage = "download"
    \/ /\ h[e].stage = "download" /\ h'[e].stage = "transcribe"
       /\ Frame(e).st = "calling" /\ Len(calls'[e]) = 1

\* C26: a voice event goes from the download to the transcription to the
\* reply: no transcribeAudio call before a download attempt resolved, no
\* success reply before a transcription resolved, at most 3 download attempts
\* and at most 3 transcribeAudio calls, and after retry gave up in either
\* stage the failure reply is sent and no success reply
C26_VoiceStages ==
  /\ [](\A e \in VoiceEventsIn : VoiceStages(e))
  /\ [][\A e \in VoiceEventsIn : VoiceStageStep(e)]_vars

\* a voice event was replied to after a transcription that needed 3 calls,
\* the last of which resolved
C26_Witness ==
  \E e \in VoiceEventsIn :
    /\ h[e].pc = "done" /\ Len(calls[e]) = DefaultRetries
    /\ TranscriptionSucceeded(e) /\ SuccessReplies(e) # {}
    /\ Frame(e).nDelays = 2


\* C27 as stated: the audio buffer of an event is passed to transcribeAudio
\* exactly once: never twice, and once when the download succeeded
C27_Original ==
  \A e \in Processed :
    /\ Len(calls[e]) <= 1
    /\ h[e].stage = "transcribe" => Len(calls[e]) = 1

\* C27, amended: the audio buffer of an event is passed to transcribeAudio once
\* per transcription attempt: once for a document, 1 to 3 times for a voice
\* event, and again only after every earlier call for the event rejected
C27_OncePerAttempt ==
  \A e \in Processed :
    /\ h[e].stage = "transcribe" <=> Len(calls[e]) >= 1
    /\ ev[e].kind = "document" => Len(calls[e]) <= 1
    /\ ev[e].kind = "voice" => Len(calls[e]) <= DefaultRetries
    /\ \A k \in 1..(Len(calls[e]) - 1) : calls[e][k].promise = "rejected"

\* the buffer of a voice event went to a second call, which resolved
C27_Witness ==
  \E e \in VoiceEventsIn :
    /\ Len(calls[e]) = 2 /\ calls[e][1].promise = "rejected"
    /\ calls[e][2].promise = "resolved" /\ h[e].pc = "done"


\* C29: every transcribeAudio call of an event is made with a MIME type of the
\* allow-list: "audio/ogg" for a voice event, the declared type of the
\* document for a document event
C29_MimeTypeAllowed ==
  \A e \in Processed :
    \A k \in 1..Len(calls[e]) :
      /\ calls[e][k].mimeType \in supportedAudioMimeTypes
      /\ ev[e].kind = "voice" => calls[e][k].mimeType = "audio/ogg"
      /\ ev[e].kind = "document" => calls[e][k].mimeType = ev[e].mime_type

\* the backend ran the tool of a call made for an audio/mpeg document
C29_Witness ==
  \E e \in DocumentEventsIn :
    /\ ev[e].mime_type = "audio/mpeg" /\ Len(calls[e]) = 1
    /\ calls[e][1].mimeType = "audio/mpeg" /\ calls[e][1].toolRan


\* C30: retry waits its delay after every failed attempt, the last one
\* included: when retry threw after n failed attempts, n delays of d seconds
\* have elapsed; when it returned at attempt k, k-1 delays have; during the
\* delay after a failed attempt, whatever its error, retry has not thrown
C30_DelayAfterEveryFailure ==
  \A e \in Events :
    LET r == Frame(e)
        n == ev[e].retries
        d == ev[e].delay
        a == ops[e]
    IN  /\ r.st = "thrown" =>
             /\ r.nDelays = n /\ r.waited = n * d
             /\ Len(a) = n /\ Failed(a) = 1..n
        /\ r.st = "returned" =>
             /\ r.nDelays = Len(a) - 1 /\ r.waited = (Len(a) - 1) * d
             /\ Failed(a) = 1..(Len(a) - 1)
        /\ r.st = "calling" =>
             r.nDelays = Len(a) /\ r.waited = Len(a) * d /\ Failed(a) = 1..Len(a)
        /\ r.st = "sleeping" =>
             /\ Failed(a) = 1..Len(a) /\ Len(a) <= n
             /\ r.nDelays = Len(a) - 1
             /\ r.waited = Len(a) * d - r.rem /\ r.rem \in 0..d

\* retry threw after 3 failed attempts with differing errors and 3 delays of 2 s
C30_Witness ==
  \E e \in Events :
    /\ ev[e].retries = 3 /\ ev[e].delay = MaxDelay
    /\ Frame(e).st = "thrown" /\ Frame(e).nDelays = 3
    /\ Frame(e).waited = 3 * MaxDelay
    /\ ops[e][1].v # ops[e][2].v


\* what the handling of e reads and writes
SentTo(e) == SelectSeq(sent, LAMBDA m : m.e = e)
Local(e) == <<h[e], ty[e], calls[e], SentTo(e)>>
\* a step changes what belongs to one event at most
StepLocal ==
  \A e1 \in PairIds, e2 \in PairIds :
    (e1 # e2 /\ Local(e1)' # Local(e1)) => Local(e2)' = Local(e2)
SuccessText(e) ==
  IF ev[e].kind = "voice" THEN VoiceTemplate(PairResult(e))
                          ELSE DocReplyText(PairResult(e), ev[e].file_name)
Suspended(e) == h[e].pc = "await" /\ h[e].stage \in {"download", "transcribe"}
\* the replies, the attempts and the typing session of e are those of e alone
OnItsOwn(e) ==
  /\ \A n \in SentOf(e) :
       /\ Threaded(e, sent[n])
       /\ sent[n].text \in {SuccessText(e), FailureTextOf(e)}
       /\ sent[n].text = SuccessText(e) =>
            TranscriptionSucceeded(e) /\ calls[e][h[e].cur].result = PairResult(e)
  /\ Frame(e).nCalls <= DefaultRetries
  /\ Len(calls[e]) <= IF ev[e].kind = "voice" THEN DefaultRetries ELSE 1
  /\ \A k \in 1..(Len(calls[e]) - 1) : calls[e][k].promise = "rejected"
  /\ Starts(ty[e]) = IF h[e].pc = "new" THEN 0 ELSE 1
  /\ Suspended(e) => LiveTimers(ty[e]) = {1} /\ ty[e].stops = 0
  /\ Finished(e) => LiveTimers(ty[e]) = {} /\ ty[e].stops >= 1

\* C28: of a voice message and an audio document of the same chat, each is
\* handled on its own: a step changes the handler state, the calls, the typing
\* session and the messages of one event only; the replies, the attempt counts
\* and the typing session of each are determined by its own download and
\* transcription outcomes; and the document is dispatched and handled up to its
\* reply even when the voice message stays suspended for ever
C28_HandledIndependently ==
  /\ [](\A e \in PairIds : OnItsOwn(e))
  /\ [][StepLocal]_vars
  /\ (h[TheDocument].pc = "new") ~>
       (Finished(TheDocument) /\ SentOf(TheDocument) # {})

\* the voice message waits out the retry delay after its first transcription
\* timed out, the document dispatched meanwhile has its success reply delivered
C28_Witness ==
  /\ Suspended(TheVoice) /\ Frame(TheVoice).st = "sleeping"
  /\ Len(calls[TheVoice]) = 1 /\ TimedOut(calls[TheVoice][1])
  /\ SentOf(TheVoice) = {}
  /\ h[TheDocument].pc = "done"
  /\ \E n \in SentOf(TheDocument) :
       sent[n].text = SuccessText(TheDocument) /\ sent[n].status = "ok"

Idle(r) ==
  /\ r.st = "thrown" /\ r.out = Undefined /\ r.lastError = Undefined
  /\ r.nCalls = 0 /\ r.nDelays = 0 /\ r.waited = 0

\* C31: retry called with a count of 0, or with any count below 1, never
\* invokes the operation, waits no delay and throws undefined, which is no
\* error of the operation
C31_ZeroRetries ==
  /\ \A n \in (0 - MaxRetries)..0, d \in 0..MaxDelay : Idle(RetryEnter(n, d))
  /\ Undefined \notin OpErrors
  /\ \A e \in Events :
       (ev[e].kind = "retry" /\ ev[e].retries < 1 /\ h[e].pc # "new") =>
         Idle(Frame(e)) /\ ops[e] = <<>> /\ h[e].pc = "done"

\* retry(op, 0, d) with a delay of 2 s has thrown
C31_Witness ==
  \E e \in Events :
    /\ ev[e].kind = "retry" /\ ev[e].retries = 0 /\ ev[e].delay = MaxDelay
    /\ h[e].pc = "done" /\ Frame(e).st = "thrown" /\ Frame(e).out = Undefined

Delivered(e) == {n \in SentOf(e) : sent[n].status = "ok"}
FailureReplies(e) == {n \in SentOf(e) : sent[n].text = VoiceFailureText}

\* C32: for a voice event at most two sendMessage calls are made, the success
\* reply and the failure reply, at most one of each; the failure reply is sent
\* only after retry gave up or after the send of the success reply failed; at
\* most one of the calls succeeds, so that no event has both replies delivered
C32_OneReplyDelivered ==
  \A e \in VoiceEventsIn :
    /\ Cardinality(SentOf(e)) <= 2
    /\ Cardinality(SuccessReplies(e)) <= 1
    /\ Cardinality(FailureReplies(e)) <= 1
    /\ Cardinality(Delivered(e)) <= 1
    /\ FailureReplies(e) # {} =>
         \/ VoiceGaveUp(e) /\ SuccessReplies(e) = {}
         \/ \E n \in SuccessReplies(e) :
              sent[n].status = "failed" /\ \A m \in FailureReplies(e) : n < m

\* the send of the success reply failed, the failure reply was delivered
C32_Witness ==
  \E e \in VoiceEventsIn :
    /\ h[e].pc = "done"
    /\ \E n \in SuccessReplies(e) : sent[n].status = "failed"
    /\ \E m \in FailureReplies(e) : sent[m].status = "ok"

\* e entered processing: its handler started the typing session and a download
Entered(e) == ev[e].kind \in {"voice", "document"} /\ h[e].stage # "none"
\* the handler of e ended, its typing session is stopped and a reply was tried
Completed(e) ==
  /\ Finished(e) /\ SentOf(e) # {}
  /\ ty[e].stops >= 1 /\ LiveTimers(ty[e]) = {}

\* C33: when every download and every sendMessage call settles, a voice or
\* audio-document event that entered processing is handled to the end: the
\* handler returned or threw, the typing session is stopped and a success or
\* failure reply was attempted
C33_HandlingEnds ==
  (\E e \in Events : Entered(e)) ~> (\E e \in Events : Completed(e))

\* a voice event ended with the failure reply after 3 transcriptions timed out
C33_Witness ==
  \E e \in VoiceEventsIn :
    /\ Completed(e) /\ Len(calls[e]) = DefaultRetries
    /\ \A k \in 1..DefaultRetries : TimedOut(calls[e][k])
    /\ FailureReplies(e) # {}

\* attempt k of e was given up and a later attempt has been started
Superseded(e, k) == k < Len(calls[e]) /\ calls[e][k].promise = "rejected"
\* the success reply of e carries the result of the one attempt that resolved,
\* which is the last one made
OwnTranscript(e) ==
  /\ Cardinality(SuccessReplies(e)) <= 1
  /\ \A k \in 1..(Len(calls[e]) - 1) : calls[e][k].promise = "rejected"
  /\ \A n \in SuccessReplies(e) :
       /\ h[e].cur = Len(calls[e]) /\ calls[e][h[e].cur].promise = "resolved"
       /\ calls[e][h[e].cur].toolRan
       /\ sent[n].text = VoiceTemplate(calls[e][h[e].cur].result)
\* a response of the backend to a superseded attempt changes nothing but the
\* record of that attempt, which stays rejected with the same error
LateResponse(e, k) ==
  (Superseded(e, k) /\ calls'[e][k] # calls[e][k]) =>
    /\ calls'[e][k].promise = "rejected"
    /\ calls'[e][k].error = calls[e][k].error
    /\ Len(calls'[e]) = Len(calls[e])
    /\ \A j \in 1..Len(calls[e]) : j # k => calls'[e][j] = calls[e][j]
    /\ h'[e].pc = h[e].pc /\ h'[e].cur = h[e].cur /\ h'[e].r = h[e].r
    /\ sent' = sent

\* C34: a tool execution (or any other response) of the backend call of an
\* attempt that timed out and was followed by a later attempt does not resolve
\* the later attempt and sends nothing; the transcript replied is the result of
\* the attempt whose own promise resolved, and at most one success reply is
\* sent
C34_LateToolIgnored ==
  /\ [](\A e \in VoiceEventsIn : OwnTranscript(e))
  /\ [][\A e \in VoiceEventsIn, k \in 1..DefaultRetries : LateResponse(e, k)]_vars

\* the first attempt timed out and its tool ran all the same; the reply
\* carries the result of the second attempt
C34_Witness ==
  \E e \in VoiceEventsIn :
    /\ Len(calls[e]) = 2 /\ TimedOut(calls[e][1]) /\ calls[e][1].toolRan
    /\ calls[e][2].promise = "resolved"
    /\ calls[e][2].result.transcribedText = <<"s", "t">>
    /\ \E n \in SuccessReplies(e) :
         sent[n].text = VoiceTemplate(calls[e][2].result) /\ sent[n].status = "ok"

\* the texts the handler of e can send
TextsOf(e) == {SuccessText(e), FailureTextOf(e)}

\* C35: with two events handled at the same time, every sendMessage call made
\* by the handler of an event, and every reply with the transcript or the
\* failure text of an event, goes to that event's chat and is threaded to that
\* event's message, never to the other event's
C35_RepliesToOwnMessage ==
  /\ \A e1 \in PairIds, e2 \in PairIds : e1 # e2 => TextsOf(e1) \cap TextsOf(e2) = {}
  /\ \A n \in 1..Len(sent) :
       \E e \in PairIds :
         /\ sent[n].e = e /\ sent[n].text \in TextsOf(e)
         /\ sent[n].chat = ev[e].chat
         /\ sent[n].reply_to_message_id = <<ev[e].message_id>>

\* the reply to the document was sent first; the voice message, whose first
\* transcription timed out, got its own reply after it
C35_Witness ==
  /\ Len(sent) = 2
  /\ sent[1].e = TheDocument /\ sent[1].text = SuccessText(TheDocument)
  /\ sent[2].e = TheVoice /\ sent[2].text = SuccessText(TheVoice)
  /\ sent[1].status = "ok" /\ sent[2].status = "ok"
  /\ Len(calls[TheVoice]) = 2 /\ TimedOut(calls[TheVoice][1])

\* the last call made on the session of e is stop()
StoppedLast(e) == ops[e] # <<>> /\ ops[e][Len(ops[e])].v = "stop"

\* C36: whatever start() and stop() calls were made on a typing session, once
\* the last call made is stop() no interval timer of the session is scheduled
C36_NothingScheduledAfterStop ==
  \A e \in TypingSessionsIn : StoppedLast(e) => LiveTimers(ty[e]) = {}

====
